---- MODULE Spec2Model ----
(***************************************************************************)
(* StoryTeller REST backend: the playlist ordering handlers and the        *)
(* profile deletion handler, modelled as request state machines over the   *)
(* relational store and the object store.  A request arrives and runs to  *)
(* its first data-store call in one step; every later data-store or        *)
(* object-store call is one step.  A call may throw, which the handler's   *)
(* catch block turns into a 500 response.                                  *)
(***************************************************************************)
EXTENDS Integers, Sequences, FiniteSets, TLC

(* ---------------------------------------------------------------------- *)
(* Bounds                                                                  *)
(* ---------------------------------------------------------------------- *)
MaxPlaylists == 2       \* rows of the playlists table
MaxEntries == 3         \* rows of the playlistStories table
MaxFavorites == 2       \* rows of the favorites table
MaxCreateLen == 2       \* longest story_ids array of 'create playlist'
MaxPosition == 1        \* largest explicit position of 'add story'
MaxProfiles == 3        \* rows of the profiles table
MaxFaults == 1          \* calls to the data store or object store that throw

(* ---------------------------------------------------------------------- *)
(* Seed data and request inputs                                            *)
(* ---------------------------------------------------------------------- *)
NoUser == 0                       \* identity provider: error or no user
Users == {1, 2}
Stories == {1, 2, 3}              \* rows of the stories table
UnknownStory == 4                 \* a story id with no row
NaN == -1                         \* parseInt of a non-numeric string
NonDigit == 10                    \* a character that is not a decimal digit

PUBLIC_URL == <<"PUBLIC_URL">>
NoPhoto == <<>>                   \* photo_url null

SeqSlots == {1}
Slots == {1, 2}

(* ---------------------------------------------------------------------- *)
(* Pure helpers                                                            *)
(* ---------------------------------------------------------------------- *)
Max(a, b) == IF a >= b THEN a ELSE b
Min(a, b) == IF a <= b THEN a ELSE b

IsDigit(c) == c \in 0..9

RECURSIVE DigitPrefix(_)
DigitPrefix(s) ==
    IF s = <<>> \/ ~IsDigit(Head(s)) THEN <<>>
    ELSE <<Head(s)>> \o DigitPrefix(Tail(s))

RECURSIVE DigitsValue(_, _)
DigitsValue(s, acc) ==
    IF s = <<>> THEN acc ELSE DigitsValue(Tail(s), 10 * acc + Head(s))

\* parseInt(s, 10) on a path parameter given as a sequence of characters
parseInt(s) ==
    LET d == DigitPrefix(s) IN IF d = <<>> THEN NaN ELSE DigitsValue(d, 0)

isNaN(n) == n = NaN

\* String.prototype.replace(pattern, ''): drops the first occurrence of
\* the pattern, if any
RECURSIVE replace(_, _)
replace(s, pat) ==
    IF Len(s) < Len(pat) THEN s
    ELSE IF SubSeq(s, 1, Len(pat)) = pat THEN SubSeq(s, Len(pat) + 1, Len(s))
    ELSE <<Head(s)>> \o replace(Tail(s), pat)

\* profile.photo_url.replace(`${PUBLIC_URL}/`, '')
PhotoKey(photo_url) == replace(photo_url, PUBLIC_URL \o <<"/">>)

SeqsUpTo(S, n) == UNION {[1..k -> S] : k \in 0..n}

SeqRange(s) == {s[i] : i \in 1..Len(s)}

(* ---------------------------------------------------------------------- *)
(* State                                                                   *)
(* ---------------------------------------------------------------------- *)
VARIABLES
    profiles,           \* rows [id, user_id, name, photo_url]
    playlists,          \* rows [id, profile_id]
    playlistStories,    \* rows [id, playlist_id, story_id, order]
    favorites,          \* rows [id, profile_id, story_id]
    profileCategories,  \* rows [id, profile_id, category_id]
    r2Objects,          \* keys present in the object store
    req,                \* per slot: the request being handled
    pre,                \* per slot: the stored state when the request began
    faults              \* data-store and object-store calls that have thrown

vars == <<profiles, playlists, playlistStories, favorites, profileCategories,
          r2Objects, req, pre, faults>>

db == <<profiles, playlists, playlistStories, favorites, profileCategories>>

\* a call to an external collaborator throws (threw) or returns
Fault(threw) ==
    /\ threw => faults < MaxFaults
    /\ faults' = IF threw THEN faults + 1 ELSE faults

NoArgs == [none |-> TRUE]
NoLoc == [none |-> TRUE]
NoBody == [none |-> TRUE]

Idle == [op |-> "idle", pc |-> "idle", user |-> NoUser, args |-> NoArgs,
         loc |-> NoLoc, status |-> 0, body |-> NoBody]

NoSnapshot == [taken |-> FALSE]

Snapshot ==
    [taken |-> TRUE,
     profiles |-> profiles,
     playlists |-> playlists,
     playlistStories |-> playlistStories,
     favorites |-> favorites,
     profileCategories |-> profileCategories,
     r2Objects |-> r2Objects]

SeedProfiles ==
    {[id |-> 1, user_id |-> 1, name |-> <<"a">>,
      photo_url |-> PUBLIC_URL \o <<"/", "profile", "a.jpg">>],
     [id |-> 2, user_id |-> 2, name |-> <<"b">>, photo_url |-> NoPhoto]}

SeedProfileCategories ==
    {[id |-> 1, profile_id |-> 1, category_id |-> 1],
     [id |-> 2, profile_id |-> 1, category_id |-> 2],
     [id |-> 3, profile_id |-> 2, category_id |-> 1]}

Init ==
    /\ profiles = SeedProfiles
    /\ playlists = {}
    /\ playlistStories = {}
    /\ favorites = {}
    /\ profileCategories = SeedProfileCategories
    /\ r2Objects = {PhotoKey(p.photo_url) : p \in {q \in SeedProfiles : q.photo_url # NoPhoto}}
    /\ req = [r \in Slots |-> Idle]
    /\ pre = [r \in Slots |-> NoSnapshot]
    /\ faults = 0

(* ---------------------------------------------------------------------- *)
(* Request plumbing                                                        *)
(* ---------------------------------------------------------------------- *)
PathParams == {<<1>>, <<2>>, <<NonDigit>>}

\* getAuthenticatedUser without the check of authError and user
getAuthenticatedUser_noError(user) == [user |-> user, error |-> 0]

\* getAuthenticatedUser: the user of the session, or a 401 response when the
\* provider returns none
getAuthenticatedUser(user) ==
    IF user = NoUser
    THEN [user |-> NoUser, error |-> 401]
    ELSE [user |-> user, error |-> 0]

\* a request arrives at an idle slot and has run to position pc: the store
\* as it was is kept for the properties
Arrive(r, op, user, args, loc, pc, status, body) ==
    /\ req' = [req EXCEPT ![r] = [op |-> op, pc |-> pc, user |-> user,
                                  args |-> args, loc |-> loc,
                                  status |-> status, body |-> body]]
    /\ pre' = [pre EXCEPT ![r] = Snapshot]

\* return NextResponse.json(body, {status})
Respond(r, status, body) ==
    req' = [req EXCEPT ![r].pc = "done", ![r].status = status,
                       ![r].body = body]

Goto(r, pc) == req' = [req EXCEPT ![r].pc = pc]

GotoWith(r, pc, loc) == req' = [req EXCEPT ![r].pc = pc, ![r].loc = loc]

Error(msg) == [error |-> msg]

\* rows a request in flight may still insert, per table
NeedEntries(r) ==
    IF req[r].pc \in {"idle", "done"} THEN 0
    ELSE IF req[r].op = "addStory" THEN 1
    ELSE IF req[r].op = "createPlaylist" THEN Len(req[r].args.story_ids)
    ELSE 0

NeedPlaylists(r) ==
    IF req[r].pc \notin {"idle", "done"} /\ req[r].op = "createPlaylist"
    THEN 1 ELSE 0

NeedFavorites(r) ==
    IF req[r].pc \notin {"idle", "done"} /\ req[r].op = "createFavorite"
    THEN 1 ELSE 0

RECURSIVE SumOver(_, _)
SumOver(f, S) ==
    IF S = {} THEN 0
    ELSE LET x == CHOOSE y \in S : TRUE IN f[x] + SumOver(f, S \ {x})

\* the tables have room for n more rows beside those that the requests in
\* flight may insert
RoomForEntries(n) ==
    Cardinality(playlistStories)
        + SumOver([r \in Slots |-> NeedEntries(r)], Slots) + n <= MaxEntries
RoomForPlaylists(n) ==
    Cardinality(playlists)
        + SumOver([r \in Slots |-> NeedPlaylists(r)], Slots) + n <= MaxPlaylists
RoomForFavorites(n) ==
    Cardinality(favorites)
        + SumOver([r \in Slots |-> NeedFavorites(r)], Slots) + n <= MaxFavorites

Ids(rows) == {x.id : x \in rows}

\* ids of playlistStories rows that a request in flight has read and will
\* use
HeldEntryIds ==
    {req[r].loc.id : r \in {q \in Slots : /\ req[q].op = "removeStory"
                                          /\ req[q].pc \in {"delete", "decrement"}}}

\* ids of favorites rows that a request in flight has read and will use
HeldFavoriteIds ==
    {req[r].loc.id : r \in {q \in Slots : /\ req[q].op = "removeFavorite"
                                          /\ req[q].pc = "delete"}}

DeleteOps == {"deleteProfile", "deleteProfileNoCleanup"}

\* the places of a delete-profile request inside prisma.$transaction
TxPcs == {"txPlaylistStories", "txPlaylists", "txFavorites",
          "txProfileCategories", "txProfile", "commit"}

\* ids of the rows of a table that a transaction still open has deleted: a
\* write of another request that changes such a row, or inserts a row
\* referencing it, waits until the transaction has ended
TxLocked(table) ==
    UNION {req[q].loc.tx[table] :
              q \in {s \in Slots : req[s].op \in DeleteOps /\ req[s].pc \in TxPcs}}

\* The data store's id of a new row.  The handlers only compare ids for
\* equality, so an id is modelled by the row's key columns and the least
\* number that makes it differ from the ids in use and the ids held.
RowId(a, b, used) ==
    LET n == CHOOSE k \in 1..(Cardinality(used) + 1) :
                 /\ <<a, b, k>> \notin used
                 /\ \A j \in 1..(k - 1) : <<a, b, j>> \in used
    IN  <<a, b, n>>

\* the id of a new playlist: the least positive integer no playlists row has
PlaylistId ==
    CHOOSE k \in 1..(Cardinality(playlists) + 1) :
        /\ k \notin Ids(playlists)
        /\ \A j \in 1..(k - 1) : j \in Ids(playlists)

\* the response has been sent; the slot is free for the next request
Return(r) ==
    /\ req[r].pc = "done"
    /\ req' = [req EXCEPT ![r] = Idle]
    /\ pre' = [pre EXCEPT ![r] = NoSnapshot]
    /\ UNCHANGED <<db, r2Objects, faults>>

\* a playlist row with its profile's user_id (include: profile.user_id)
OwnerOfPlaylist(pl) ==
    LET p == CHOOSE q \in profiles : q.id = pl.profile_id IN p.user_id

EntriesOf(pid) == {e \in playlistStories : e.playlist_id = pid}

(* ---------------------------------------------------------------------- *)
(* POST /api/playlists/{playlist_id}/stories : add story to playlist       *)
(* ---------------------------------------------------------------------- *)
Positions == (0 - 1)..MaxPosition

\* the request arrives: getAuthenticatedUser, parameter and body validation,
\* then prisma.playlists.findUnique with the profile's user_id and the
\* playlist's entries
AddFindPlaylist(r) ==
    /\ req[r].pc = "idle"
    /\ RoomForEntries(1)
    /\ \E user \in Users \cup {NoUser}, playlist_id \in PathParams,
          story_id \in {0} \cup Stories \cup {UnknownStory},
          hasPosition \in BOOLEAN, position \in Positions :
        /\ hasPosition \/ position = 0
        \* a request refused before the handler reads an input carries one
        \* value of that input
        /\ user = NoUser => playlist_id = <<1>> /\ story_id = 1 /\ ~hasPosition
        /\ isNaN(parseInt(playlist_id)) => story_id = 1 /\ ~hasPosition
        /\ story_id = 0 => ~hasPosition
        /\ LET auth == getAuthenticatedUser(user)
               a == [playlist_id |-> playlist_id, story_id |-> story_id,
                     hasPosition |-> hasPosition, position |-> position]
               loc == [length |-> 0, newOrder |-> 0]
               parsedPlaylistId == parseInt(playlist_id)
               found == {pl \in playlists : pl.id = parsedPlaylistId}
               Reply(status, body) ==
                   Arrive(r, "addStory", auth.user, a, loc, "done", status, body)
           IN  IF auth.error # 0
               THEN Reply(auth.error, Error("Unauthorized")) /\ UNCHANGED faults
               ELSE IF isNaN(parsedPlaylistId)
               THEN Reply(400, Error("Invalid playlist ID")) /\ UNCHANGED faults
               ELSE IF story_id = 0
               THEN Reply(400, Error("story_id is required and must be a number")) /\ UNCHANGED faults
               ELSE \E threw \in BOOLEAN :
                    /\ Fault(threw)
                    /\ IF threw
                       THEN Reply(500, Error("Failed to add story to playlist"))
                       ELSE IF found = {}
                       THEN Reply(404, Error("Playlist not found"))
                       ELSE IF OwnerOfPlaylist(CHOOSE pl \in found : TRUE) # auth.user
                       THEN Reply(403, Error("Forbidden"))
                       ELSE Arrive(r, "addStory", auth.user, a,
                                   [loc EXCEPT !.length =
                                       Cardinality(EntriesOf(parsedPlaylistId))],
                                   "findStory", 0, NoBody)
    /\ UNCHANGED <<db, r2Objects>>

\* prisma.stories.findUnique
AddFindStory(r) ==
    /\ req[r].op = "addStory" /\ req[r].pc = "findStory"
    /\ \E threw \in BOOLEAN :
        /\ Fault(threw)
        /\ IF threw
           THEN Respond(r, 500, Error("Failed to add story to playlist"))
           ELSE IF req[r].args.story_id \notin Stories
           THEN Respond(r, 404, Error("Story not found"))
           ELSE Goto(r, "findExisting")
    /\ UNCHANGED <<db, r2Objects, pre>>

\* the choice of newOrder without Math.max and Math.min
AddFindExisting_noClamp(r) ==
    /\ req[r].op = "addStory" /\ req[r].pc = "findExisting"
    /\ LET a == req[r].args
           parsedPlaylistId == parseInt(a.playlist_id)
           existingStory == {e \in EntriesOf(parsedPlaylistId) :
                                e.story_id = a.story_id}
           validPosition == a.position
       IN  \E threw \in BOOLEAN :
           /\ Fault(threw)
           /\ IF threw
              THEN Respond(r, 500, Error("Failed to add story to playlist"))
              ELSE IF existingStory # {}
              THEN Respond(r, 409, Error("Story already exists in this playlist"))
              ELSE IF a.hasPosition
              THEN GotoWith(r, "shift", [req[r].loc EXCEPT !.newOrder = validPosition])
              ELSE GotoWith(r, "create",
                            [req[r].loc EXCEPT !.newOrder = req[r].loc.length])
    /\ UNCHANGED <<db, r2Objects, pre>>

\* the choice of newOrder with length - 1 in place of length
AddFindExisting_lengthLessOne(r) ==
    /\ req[r].op = "addStory" /\ req[r].pc = "findExisting"
    /\ LET a == req[r].args
           parsedPlaylistId == parseInt(a.playlist_id)
           existingStory == {e \in EntriesOf(parsedPlaylistId) :
                                e.story_id = a.story_id}
           validPosition == Max(0, Min(a.position, req[r].loc.length))
       IN  \E threw \in BOOLEAN :
           /\ Fault(threw)
           /\ IF threw
              THEN Respond(r, 500, Error("Failed to add story to playlist"))
              ELSE IF existingStory # {}
              THEN Respond(r, 409, Error("Story already exists in this playlist"))
              ELSE IF a.hasPosition
              THEN GotoWith(r, "shift", [req[r].loc EXCEPT !.newOrder = validPosition])
              ELSE GotoWith(r, "create",
                            [req[r].loc EXCEPT !.newOrder =
                                Max(0, req[r].loc.length - 1)])
    /\ UNCHANGED <<db, r2Objects, pre>>

\* the findFirst without the playlist_id of its where clause
AddFindExisting_anyPlaylist(r) ==
    /\ req[r].op = "addStory" /\ req[r].pc = "findExisting"
    /\ LET a == req[r].args
           existingStory == {e \in playlistStories : e.story_id = a.story_id}
           validPosition == Max(0, Min(a.position, req[r].loc.length))
       IN  \E threw \in BOOLEAN :
           /\ Fault(threw)
           /\ IF threw
              THEN Respond(r, 500, Error("Failed to add story to playlist"))
              ELSE IF existingStory # {}
              THEN Respond(r, 409, Error("Story already exists in this playlist"))
              ELSE IF a.hasPosition
              THEN GotoWith(r, "shift", [req[r].loc EXCEPT !.newOrder = validPosition])
              ELSE GotoWith(r, "create",
                            [req[r].loc EXCEPT !.newOrder = req[r].loc.length])
    /\ UNCHANGED <<db, r2Objects, pre>>

\* prisma.playlistStories.findFirst, then the choice of newOrder
AddFindExisting(r) ==
    /\ req[r].op = "addStory" /\ req[r].pc = "findExisting"
    /\ LET a == req[r].args
           parsedPlaylistId == parseInt(a.playlist_id)
           existingStory == {e \in EntriesOf(parsedPlaylistId) :
                                e.story_id = a.story_id}
           validPosition == Max(0, Min(a.position, req[r].loc.length))
       IN  \E threw \in BOOLEAN :
           /\ Fault(threw)
           /\ IF threw
              THEN Respond(r, 500, Error("Failed to add story to playlist"))
              ELSE IF existingStory # {}
              THEN Respond(r, 409, Error("Story already exists in this playlist"))
              ELSE IF a.hasPosition
              THEN GotoWith(r, "shift", [req[r].loc EXCEPT !.newOrder = validPosition])
              ELSE GotoWith(r, "create",
                            [req[r].loc EXCEPT !.newOrder = req[r].loc.length])
    /\ UNCHANGED <<db, r2Objects, pre>>

\* the range shift with gt in place of gte
ShiftedUp_gt(rows, pid, from) ==
    {IF e.playlist_id = pid /\ e.order > from
     THEN [e EXCEPT !.order = @ + 1] ELSE e : e \in rows}

\* updateMany: order >= validPosition incremented by one
ShiftedUp(rows, pid, from) ==
    {IF e.playlist_id = pid /\ e.order >= from
     THEN [e EXCEPT !.order = @ + 1] ELSE e : e \in rows}

\* prisma.playlistStories.updateMany (range shift)
AddShift(r) ==
    /\ req[r].op = "addStory" /\ req[r].pc = "shift"
    /\ \A e \in playlistStories :
          ( /\ e.playlist_id = parseInt(req[r].args.playlist_id)
            /\ e.order >= req[r].loc.newOrder )
          => e.id \notin TxLocked("playlistStories")
    /\ \E threw \in BOOLEAN :
        /\ Fault(threw)
        /\ IF threw
           THEN /\ Respond(r, 500, Error("Failed to add story to playlist"))
                /\ UNCHANGED playlistStories
           ELSE /\ playlistStories' =
                       ShiftedUp(playlistStories, parseInt(req[r].args.playlist_id),
                                 req[r].loc.newOrder)
                /\ Goto(r, "create")
    /\ UNCHANGED <<profiles, playlists, favorites, profileCategories,
                   r2Objects, pre>>

\* prisma.playlistStories.create; fails when the playlist row is gone
AddCreate(r) ==
    /\ req[r].op = "addStory" /\ req[r].pc = "create"
    /\ parseInt(req[r].args.playlist_id) \notin TxLocked("playlists")
    /\ LET pid == parseInt(req[r].args.playlist_id)
           playlistStory == [id |-> RowId(pid, req[r].args.story_id,
                                            Ids(playlistStories) \cup HeldEntryIds),
                             playlist_id |-> pid,
                             story_id |-> req[r].args.story_id,
                             order |-> req[r].loc.newOrder]
       IN  \E threw \in BOOLEAN :
           /\ Fault(threw)
           /\ IF threw \/ ~(\E pl \in playlists : pl.id = pid)
              THEN /\ Respond(r, 500, Error("Failed to add story to playlist"))
                   /\ UNCHANGED playlistStories
              ELSE /\ playlistStories' = playlistStories \cup {playlistStory}
                   /\ Respond(r, 201, playlistStory)
    /\ UNCHANGED <<profiles, playlists, favorites, profileCategories,
                   r2Objects, pre>>

(* ---------------------------------------------------------------------- *)
(* DELETE /api/playlists/{playlist_id}/stories/{story_id}                  *)
(* ---------------------------------------------------------------------- *)
\* the request arrives: getAuthenticatedUser, then
\* prisma.playlists.findUnique; an id that is NaN is rejected by the client
RemoveFindPlaylist(r) ==
    /\ req[r].pc = "idle"
    /\ \E user \in Users \cup {NoUser}, playlist_id \in PathParams,
          story_id \in {<<s>> : s \in Stories} \cup {<<NonDigit>>} :
        /\ user = NoUser => playlist_id = <<1>> /\ story_id = <<1>>
        /\ isNaN(parseInt(playlist_id)) => story_id = <<1>>
        /\ LET auth == getAuthenticatedUser(user)
               a == [playlist_id |-> playlist_id, story_id |-> story_id]
               loc == [id |-> <<>>, order |-> 0]
               parsedPlaylistId == parseInt(playlist_id)
               found == {pl \in playlists : pl.id = parsedPlaylistId}
               Reply(status, body) ==
                   Arrive(r, "removeStory", auth.user, a, loc, "done", status, body)
           IN  IF auth.error # 0
               THEN Reply(auth.error, Error("Unauthorized")) /\ UNCHANGED faults
               ELSE \E threw \in BOOLEAN :
                    /\ Fault(threw)
                    /\ IF threw \/ isNaN(parsedPlaylistId)
                       THEN Reply(500, Error("Failed to remove story from playlist"))
                       ELSE IF found = {}
                       THEN Reply(404, Error("Playlist not found"))
                       ELSE IF OwnerOfPlaylist(CHOOSE pl \in found : TRUE) # auth.user
                       THEN Reply(403, Error("Forbidden"))
                       ELSE Arrive(r, "removeStory", auth.user, a, loc,
                                   "findEntry", 0, NoBody)
    /\ UNCHANGED <<db, r2Objects>>

\* the findFirst without the story_id of its where clause
RemoveFindEntry_anyStory(r) ==
    /\ req[r].op = "removeStory" /\ req[r].pc = "findEntry"
    /\ LET parsedPlaylistId == parseInt(req[r].args.playlist_id)
           parsedStoryId == parseInt(req[r].args.story_id)
           matching == EntriesOf(parsedPlaylistId)
       IN  \E threw \in BOOLEAN :
           /\ Fault(threw)
           /\ IF threw \/ isNaN(parsedStoryId)
              THEN Respond(r, 500, Error("Failed to remove story from playlist"))
              ELSE IF matching = {}
              THEN Respond(r, 404, Error("Story not found in playlist"))
              ELSE \E playlistStory \in matching :
                      GotoWith(r, "delete", [id |-> playlistStory.id,
                                             order |-> playlistStory.order])
    /\ UNCHANGED <<db, r2Objects, pre>>

\* prisma.playlistStories.findFirst: any one matching row
RemoveFindEntry(r) ==
    /\ req[r].op = "removeStory" /\ req[r].pc = "findEntry"
    /\ LET parsedPlaylistId == parseInt(req[r].args.playlist_id)
           parsedStoryId == parseInt(req[r].args.story_id)
           matching == {e \in EntriesOf(parsedPlaylistId) :
                           e.story_id = parsedStoryId}
       IN  \E threw \in BOOLEAN :
           /\ Fault(threw)
           /\ IF threw \/ isNaN(parsedStoryId)
              THEN Respond(r, 500, Error("Failed to remove story from playlist"))
              ELSE IF matching = {}
              THEN Respond(r, 404, Error("Story not found in playlist"))
              ELSE \E playlistStory \in matching :
                      GotoWith(r, "delete", [id |-> playlistStory.id,
                                             order |-> playlistStory.order])
    /\ UNCHANGED <<db, r2Objects, pre>>

\* prisma.playlistStories.delete by id; throws when the row is gone
RemoveDelete(r) ==
    /\ req[r].op = "removeStory" /\ req[r].pc = "delete"
    /\ LET row == {e \in playlistStories : e.id = req[r].loc.id}
       IN  \E threw \in BOOLEAN :
           /\ Fault(threw)
           /\ IF threw \/ row = {}
              THEN /\ Respond(r, 500, Error("Failed to remove story from playlist"))
                   /\ UNCHANGED playlistStories
              ELSE /\ playlistStories' = playlistStories \ row
                   /\ Goto(r, "decrement")
    /\ UNCHANGED <<profiles, playlists, favorites, profileCategories,
                   r2Objects, pre>>

\* the gap closing with lt in place of gt
ShiftedDown_lt(rows, pid, above) ==
    {IF e.playlist_id = pid /\ e.order < above
     THEN [e EXCEPT !.order = @ - 1] ELSE e : e \in rows}

\* updateMany: order > the removed order decremented by one
ShiftedDown(rows, pid, above) ==
    {IF e.playlist_id = pid /\ e.order > above
     THEN [e EXCEPT !.order = @ - 1] ELSE e : e \in rows}

\* prisma.playlistStories.updateMany (close the gap)
RemoveDecrement(r) ==
    /\ req[r].op = "removeStory" /\ req[r].pc = "decrement"
    /\ \E threw \in BOOLEAN :
        /\ Fault(threw)
        /\ IF threw
           THEN /\ Respond(r, 500, Error("Failed to remove story from playlist"))
                /\ UNCHANGED playlistStories
           ELSE /\ playlistStories' =
                       ShiftedDown(playlistStories, parseInt(req[r].args.playlist_id),
                                   req[r].loc.order)
                /\ Respond(r, 200, [message |-> "Story removed from playlist successfully"])
    /\ UNCHANGED <<profiles, playlists, favorites, profileCategories,
                   r2Objects, pre>>

(* ---------------------------------------------------------------------- *)
(* POST /api/playlists : create playlist                                   *)
(* ---------------------------------------------------------------------- *)
\* String.prototype.trim on a sequence of characters
RECURSIVE trimStart(_)
trimStart(s) == IF s # <<>> /\ Head(s) = " " THEN trimStart(Tail(s)) ELSE s

RECURSIVE trimEnd(_)
trimEnd(s) ==
    IF s # <<>> /\ s[Len(s)] = " " THEN trimEnd(SubSeq(s, 1, Len(s) - 1)) ELSE s

trim(s) == trimEnd(trimStart(s))

PlaylistNames == {<<" ">>, <<"a", " ">>}

\* the request arrives: getAuthenticatedUser, body validation, then
\* prisma.profiles.findUnique
CreateFindProfile(r) ==
    /\ req[r].pc = "idle"
    /\ RoomForPlaylists(1)
    /\ \E user \in Users \cup {NoUser},
          profile_id \in {<<>>, <<1>>, <<2>>},
          name \in PlaylistNames,
          story_ids \in SeqsUpTo({1, 2, UnknownStory}, MaxCreateLen) :
        /\ RoomForEntries(Len(story_ids))
        /\ user = NoUser => profile_id = <<1>> /\ story_ids = <<1>>
                             /\ name = <<"a", " ">>
        /\ LET auth == getAuthenticatedUser(user)
               a == [profile_id |-> profile_id, name |-> name,
                     story_ids |-> story_ids]
               profileIdParsed == parseInt(profile_id)
               Reply(status, body) ==
                   Arrive(r, "createPlaylist", auth.user, a, NoLoc, "done",
                          status, body)
           IN  IF auth.error # 0
               THEN Reply(auth.error, Error("Unauthorized")) /\ UNCHANGED faults
               ELSE IF profile_id = <<>> \/ name = <<>>
               THEN Reply(400, Error("profile_id, name, and story_ids are required")) /\ UNCHANGED faults
               ELSE IF Len(story_ids) = 0
               THEN Reply(400, Error("story_ids array cannot be empty")) /\ UNCHANGED faults
               ELSE IF Len(trim(name)) = 0
               THEN Reply(400, Error("name cannot be empty")) /\ UNCHANGED faults
               ELSE \E threw \in BOOLEAN :
                    /\ Fault(threw)
                    /\ IF threw \/ isNaN(profileIdParsed)
                       THEN Reply(500, Error("Failed to create profile"))
                       ELSE IF ~(\E q \in profiles : q.id = profileIdParsed)
                       THEN Reply(404, Error("Profile not found"))
                       ELSE Arrive(r, "createPlaylist", auth.user, a, NoLoc,
                                   "findStories", 0, NoBody)
    /\ UNCHANGED <<db, r2Objects>>

\* the findMany result tested for being empty, not for its length
CreateFindStories_noneFound(r) ==
    /\ req[r].op = "createPlaylist" /\ req[r].pc = "findStories"
    /\ LET story_ids == req[r].args.story_ids
           stories == SeqRange(story_ids) \cap Stories
       IN  \E threw \in BOOLEAN :
           /\ Fault(threw)
           /\ IF threw
              THEN Respond(r, 500, Error("Failed to create profile"))
              ELSE IF Cardinality(stories) = 0
              THEN Respond(r, 404, Error("Stories not found"))
              ELSE Goto(r, "create")
    /\ UNCHANGED <<db, r2Objects, pre>>

\* prisma.stories.findMany({id: {in: story_ids}}): the distinct rows found
CreateFindStories(r) ==
    /\ req[r].op = "createPlaylist" /\ req[r].pc = "findStories"
    /\ LET story_ids == req[r].args.story_ids
           stories == SeqRange(story_ids) \cap Stories
       IN  \E threw \in BOOLEAN :
           /\ Fault(threw)
           /\ IF threw
              THEN Respond(r, 500, Error("Failed to create profile"))
              ELSE IF Cardinality(stories) # Len(story_ids)
              THEN Respond(r, 404, Error("Stories not found"))
              ELSE Goto(r, "create")
    /\ UNCHANGED <<db, r2Objects, pre>>

\* prisma.playlists.create with nested playlistStories create: one write
CreatePlaylistRows(r) ==
    /\ req[r].op = "createPlaylist" /\ req[r].pc = "create"
    /\ parseInt(req[r].args.profile_id) \notin TxLocked("profiles")
    /\ LET a == req[r].args
           profileIdParsed == parseInt(a.profile_id)
           row == [id |-> PlaylistId,
                   profile_id |-> profileIdParsed, name |-> trim(a.name)]
           entries == {[id |-> RowId(row.id, a.story_ids[index],
                                     Ids(playlistStories) \cup HeldEntryIds),
                        playlist_id |-> row.id,
                        story_id |-> a.story_ids[index],
                        order |-> index - 1] : index \in 1..Len(a.story_ids)}
       IN  \E threw \in BOOLEAN :
           /\ Fault(threw)
           /\ IF threw \/ ~(\E p \in profiles : p.id = profileIdParsed)
              THEN /\ Respond(r, 500, Error("Failed to create profile"))
                   /\ UNCHANGED <<playlists, playlistStories>>
              ELSE /\ playlists' = playlists \cup {row}
                   /\ playlistStories' = playlistStories \cup entries
                   /\ Respond(r, 201, row)
    /\ UNCHANGED <<profiles, favorites, profileCategories, r2Objects, pre>>

(* ---------------------------------------------------------------------- *)
(* POST /api/favorites : create favorite                                   *)
(* ---------------------------------------------------------------------- *)
\* the findFirst with profileIdParsed in the place of storyIdParsed
FavoriteFindFirst_wrongStory(r) ==
    /\ req[r].pc = "idle"
    /\ RoomForFavorites(1)
    /\ \E user \in Users \cup {NoUser},
          profile_id \in {<<>>, <<1>>, <<2>>},
          story_id \in {<<1>>, <<2>>, <<NonDigit>>} :
        /\ user = NoUser => profile_id = <<1>> /\ story_id = <<1>>
        /\ LET auth == getAuthenticatedUser(user)
               a == [profile_id |-> profile_id, story_id |-> story_id]
               profileIdParsed == parseInt(profile_id)
               storyIdParsed == parseInt(story_id)
               favorite == {f \in favorites : f.profile_id = profileIdParsed
                                              /\ f.story_id = profileIdParsed}
               Reply(status, body) ==
                   Arrive(r, "createFavorite", auth.user, a, NoLoc, "done",
                          status, body)
           IN  IF auth.error # 0
               THEN Reply(auth.error, Error("Unauthorized")) /\ UNCHANGED faults
               ELSE IF profile_id = <<>> \/ story_id = <<>>
               THEN Reply(400, Error("profile_id and story_id are required")) /\ UNCHANGED faults
               ELSE \E threw \in BOOLEAN :
                    /\ Fault(threw)
                    /\ IF threw \/ isNaN(profileIdParsed) \/ isNaN(storyIdParsed)
                       THEN Reply(500, Error("Failed to create favorite"))
                       ELSE IF favorite # {}
                       THEN Reply(409, Error("Profile with this name already exists"))
                       ELSE Arrive(r, "createFavorite", auth.user, a, NoLoc,
                                   "create", 0, NoBody)
    /\ UNCHANGED <<db, r2Objects>>

\* the request arrives: getAuthenticatedUser, body validation, then
\* prisma.favorites.findFirst
FavoriteFindFirst(r) ==
    /\ req[r].pc = "idle"
    /\ RoomForFavorites(1)
    /\ \E user \in Users \cup {NoUser},
          profile_id \in {<<>>, <<1>>, <<2>>},
          story_id \in {<<1>>, <<2>>, <<NonDigit>>} :
        /\ user = NoUser => profile_id = <<1>> /\ story_id = <<1>>
        /\ LET auth == getAuthenticatedUser(user)
               a == [profile_id |-> profile_id, story_id |-> story_id]
               profileIdParsed == parseInt(profile_id)
               storyIdParsed == parseInt(story_id)
               favorite == {f \in favorites : f.profile_id = profileIdParsed
                                              /\ f.story_id = storyIdParsed}
               Reply(status, body) ==
                   Arrive(r, "createFavorite", auth.user, a, NoLoc, "done",
                          status, body)
           IN  IF auth.error # 0
               THEN Reply(auth.error, Error("Unauthorized")) /\ UNCHANGED faults
               ELSE IF profile_id = <<>> \/ story_id = <<>>
               THEN Reply(400, Error("profile_id and story_id are required")) /\ UNCHANGED faults
               ELSE \E threw \in BOOLEAN :
                    /\ Fault(threw)
                    /\ IF threw \/ isNaN(profileIdParsed) \/ isNaN(storyIdParsed)
                       THEN Reply(500, Error("Failed to create favorite"))
                       ELSE IF favorite # {}
                       THEN Reply(409, Error("Profile with this name already exists"))
                       ELSE Arrive(r, "createFavorite", auth.user, a, NoLoc,
                                   "create", 0, NoBody)
    /\ UNCHANGED <<db, r2Objects>>

\* the favorites table admits one row per (profile_id, story_id): a create
\* of a second one fails with 'Unique constraint failed'
UniqueConstraintFailed(rows, row) ==
    \E f \in rows : f.profile_id = row.profile_id /\ f.story_id = row.story_id

\* the catch block without its branch for 'Unique constraint'
FavoriteCreate_noUniqueBranch(r) ==
    /\ req[r].op = "createFavorite" /\ req[r].pc = "create"
    /\ LET row == [id |-> RowId(parseInt(req[r].args.profile_id),
                                parseInt(req[r].args.story_id),
                                Ids(favorites) \cup HeldFavoriteIds),
                   profile_id |-> parseInt(req[r].args.profile_id),
                   story_id |-> parseInt(req[r].args.story_id)]
       IN  \E threw \in BOOLEAN :
           /\ Fault(threw)
           /\ IF \/ threw
                 \/ ~(\E p \in profiles : p.id = row.profile_id)
                 \/ row.story_id \notin Stories
              THEN /\ Respond(r, 500, Error("Failed to create favorite"))
                   /\ UNCHANGED favorites
              ELSE IF UniqueConstraintFailed(favorites, row)
              THEN /\ Respond(r, 500, Error("Failed to create favorite"))
                   /\ UNCHANGED favorites
              ELSE /\ favorites' = favorites \cup {row}
                   /\ Respond(r, 201, row)
    /\ UNCHANGED <<profiles, playlists, playlistStories, profileCategories,
                   r2Objects, pre>>

\* prisma.favorites.create; fails when the profile or the story row is
\* absent (500) and when the pair has a row already (409)
FavoriteCreate(r) ==
    /\ req[r].op = "createFavorite" /\ req[r].pc = "create"
    /\ LET row == [id |-> RowId(parseInt(req[r].args.profile_id),
                                parseInt(req[r].args.story_id),
                                Ids(favorites) \cup HeldFavoriteIds),
                   profile_id |-> parseInt(req[r].args.profile_id),
                   story_id |-> parseInt(req[r].args.story_id)]
       IN  \E threw \in BOOLEAN :
           /\ Fault(threw)
           /\ IF \/ threw
                 \/ ~(\E p \in profiles : p.id = row.profile_id)
                 \/ row.story_id \notin Stories
              THEN /\ Respond(r, 500, Error("Failed to create favorite"))
                   /\ UNCHANGED favorites
              ELSE IF UniqueConstraintFailed(favorites, row)
              THEN /\ Respond(r, 409, Error("Profile already exists"))
                   /\ UNCHANGED favorites
              ELSE /\ favorites' = favorites \cup {row}
                   /\ Respond(r, 201, row)
    /\ UNCHANGED <<profiles, playlists, playlistStories, profileCategories,
                   r2Objects, pre>>

(* ---------------------------------------------------------------------- *)
(* DELETE /api/favorites/profiles/{profile_id}/stories/{story_id}          *)
(* ---------------------------------------------------------------------- *)
\* the request arrives: getAuthenticatedUser, parameter validation, then
\* prisma.profiles.findUnique and the ownership check
RemoveFavoriteFindProfile(r) ==
    /\ req[r].pc = "idle"
    /\ \E user \in Users \cup {NoUser}, profile_id \in PathParams,
          story_id \in {<<1>>, <<2>>, <<NonDigit>>} :
        /\ user = NoUser => profile_id = <<1>> /\ story_id = <<1>>
        /\ isNaN(parseInt(profile_id)) => story_id = <<1>>
        /\ LET auth == getAuthenticatedUser(user)
               a == [profile_id |-> profile_id, story_id |-> story_id]
               loc == [id |-> <<>>]
               profileIdParsed == parseInt(profile_id)
               storyIdParsed == parseInt(story_id)
               profile == {q \in profiles : q.id = profileIdParsed}
               Reply(status, body) ==
                   Arrive(r, "removeFavorite", auth.user, a, loc, "done",
                          status, body)
           IN  IF auth.error # 0
               THEN Reply(auth.error, Error("Unauthorized")) /\ UNCHANGED faults
               ELSE IF isNaN(profileIdParsed) \/ isNaN(storyIdParsed)
               THEN Reply(400, Error("Invalid profile ID or story ID")) /\ UNCHANGED faults
               ELSE \E threw \in BOOLEAN :
                    /\ Fault(threw)
                    /\ IF threw
                       THEN Reply(500, Error("Failed to remove favorite"))
                       ELSE IF profile = {}
                       THEN Reply(404, Error("Profile not found"))
                       ELSE IF (CHOOSE q \in profile : TRUE).user_id # auth.user
                       THEN Reply(403, Error("Forbidden - you can only manage your own favorites"))
                       ELSE Arrive(r, "removeFavorite", auth.user, a, loc,
                                   "findFirst", 0, NoBody)
    /\ UNCHANGED <<db, r2Objects>>

\* prisma.favorites.findFirst
RemoveFavoriteFindFirst(r) ==
    /\ req[r].op = "removeFavorite" /\ req[r].pc = "findFirst"
    /\ LET favorite == {f \in favorites :
                           /\ f.profile_id = parseInt(req[r].args.profile_id)
                           /\ f.story_id = parseInt(req[r].args.story_id)}
       IN  \E threw \in BOOLEAN :
           /\ Fault(threw)
           /\ IF threw
              THEN Respond(r, 500, Error("Failed to remove favorite"))
              ELSE IF favorite = {}
              THEN Respond(r, 404, Error("Favorite not found"))
              ELSE \E f \in favorite :
                       GotoWith(r, "delete", [req[r].loc EXCEPT !.id = f.id])
    /\ UNCHANGED <<db, r2Objects, pre>>

\* prisma.favorites.delete by id; fails when the row is gone
RemoveFavoriteDelete(r) ==
    /\ req[r].op = "removeFavorite" /\ req[r].pc = "delete"
    /\ \E threw \in BOOLEAN :
        /\ Fault(threw)
        /\ IF threw \/ req[r].loc.id \notin Ids(favorites)
           THEN /\ Respond(r, 500, Error("Failed to remove favorite"))
                /\ UNCHANGED favorites
           ELSE /\ favorites' = {f \in favorites : f.id # req[r].loc.id}
                /\ Respond(r, 200, [message |-> "Favorite removed successfully"])
    /\ UNCHANGED <<profiles, playlists, playlistStories, profileCategories,
                   r2Objects, pre>>

(* ---------------------------------------------------------------------- *)
(* PUT and DELETE /api/playlists/{playlist_id}                             *)
(* ---------------------------------------------------------------------- *)
RenameNames == {<<>>, <<" ">>, <<"b", " ">>}

\* the request arrives: getAuthenticatedUser, parameter and body validation,
\* then prisma.playlists.findUnique and the ownership check
RenameFindPlaylist(r) ==
    /\ req[r].pc = "idle"
    /\ \E user \in Users \cup {NoUser}, playlist_id \in PathParams,
          name \in RenameNames :
        /\ user = NoUser => playlist_id = <<1>> /\ name = <<>>
        /\ isNaN(parseInt(playlist_id)) => name = <<>>
        /\ LET auth == getAuthenticatedUser(user)
               a == [playlist_id |-> playlist_id, name |-> name]
               playlistId == parseInt(playlist_id)
               playlist == {pl \in playlists : pl.id = playlistId}
               Reply(status, body) ==
                   Arrive(r, "renamePlaylist", auth.user, a, NoLoc, "done",
                          status, body)
           IN  IF auth.error # 0
               THEN Reply(auth.error, Error("Unauthorized")) /\ UNCHANGED faults
               ELSE IF isNaN(playlistId)
               THEN Reply(400, Error("Invalid playlist ID")) /\ UNCHANGED faults
               ELSE IF name = <<>> \/ Len(trim(name)) = 0
               THEN Reply(400, Error("Name is required and cannot be empty")) /\ UNCHANGED faults
               ELSE \E threw \in BOOLEAN :
                    /\ Fault(threw)
                    /\ IF threw
                       THEN Reply(500, Error("Failed to update playlist"))
                       ELSE IF playlist = {}
                       THEN Reply(404, Error("Playlist not found"))
                       ELSE IF OwnerOfPlaylist(CHOOSE pl \in playlist : TRUE) # auth.user
                       THEN Reply(403, Error("Forbidden - you can only update your own playlists"))
                       ELSE Arrive(r, "renamePlaylist", auth.user, a, NoLoc,
                                   "update", 0, NoBody)
    /\ UNCHANGED <<db, r2Objects>>

\* prisma.playlists.update of the name; fails when the row is gone
RenameUpdate(r) ==
    /\ req[r].op = "renamePlaylist" /\ req[r].pc = "update"
    /\ LET playlistId == parseInt(req[r].args.playlist_id)
           row == {pl \in playlists : pl.id = playlistId}
           updatedPlaylist == [CHOOSE pl \in row : TRUE
                                 EXCEPT !.name = trim(req[r].args.name)]
       IN  \E threw \in BOOLEAN :
           /\ Fault(threw)
           /\ IF threw \/ row = {}
              THEN /\ Respond(r, 500, Error("Failed to update playlist"))
                   /\ UNCHANGED playlists
              ELSE /\ playlists' = (playlists \ row) \cup {updatedPlaylist}
                   /\ Respond(r, 200, updatedPlaylist)
    /\ UNCHANGED <<profiles, playlistStories, favorites, profileCategories,
                   r2Objects, pre>>

\* the request arrives: getAuthenticatedUser, parameter validation, then
\* prisma.playlists.findUnique and the ownership check
DeletePlaylistFind(r) ==
    /\ req[r].pc = "idle"
    /\ \E user \in Users \cup {NoUser}, playlist_id \in PathParams :
        /\ user = NoUser => playlist_id = <<1>>
        /\ LET auth == getAuthenticatedUser(user)
               a == [playlist_id |-> playlist_id]
               playlistId == parseInt(playlist_id)
               playlist == {pl \in playlists : pl.id = playlistId}
               Reply(status, body) ==
                   Arrive(r, "deletePlaylist", auth.user, a, NoLoc, "done",
                          status, body)
           IN  IF auth.error # 0
               THEN Reply(auth.error, Error("Unauthorized")) /\ UNCHANGED faults
               ELSE IF isNaN(playlistId)
               THEN Reply(400, Error("Invalid playlist ID")) /\ UNCHANGED faults
               ELSE \E threw \in BOOLEAN :
                    /\ Fault(threw)
                    /\ IF threw
                       THEN Reply(500, Error("Failed to delete playlist"))
                       ELSE IF playlist = {}
                       THEN Reply(404, Error("Playlist not found"))
                       ELSE IF OwnerOfPlaylist(CHOOSE pl \in playlist : TRUE) # auth.user
                       THEN Reply(403, Error("Forbidden - you can only delete your own playlists"))
                       ELSE Arrive(r, "deletePlaylist", auth.user, a, NoLoc,
                                   "delete", 0, NoBody)
    /\ UNCHANGED <<db, r2Objects>>

\* the entries of a playlist are deleted with it
CascadeFromPlaylist(rows, playlistId) ==
    {e \in rows : e.playlist_id # playlistId}

\* the delete with the profile_id in place of the id in its where clause
DeletePlaylistRow_allOfProfile(r) ==
    /\ req[r].op = "deletePlaylist" /\ req[r].pc = "delete"
    /\ LET playlistId == parseInt(req[r].args.playlist_id)
           row == {pl \in playlists : pl.id = playlistId}
       IN  \E threw \in BOOLEAN :
           /\ Fault(threw)
           /\ IF threw \/ row = {}
              THEN /\ Respond(r, 500, Error("Failed to delete playlist"))
                   /\ UNCHANGED <<playlists, playlistStories>>
              ELSE /\ playlists' = {pl \in playlists :
                                      \A q \in row : pl.profile_id # q.profile_id}
                   /\ playlistStories' =
                          {e \in playlistStories : e.playlist_id \in Ids(playlists')}
                   /\ Respond(r, 200, [message |-> "Playlist deleted successfully",
                                       id |-> playlistId])
    /\ UNCHANGED <<profiles, favorites, profileCategories, r2Objects, pre>>

\* prisma.playlists.delete; fails when the row is gone
DeletePlaylistRow(r) ==
    /\ req[r].op = "deletePlaylist" /\ req[r].pc = "delete"
    /\ LET playlistId == parseInt(req[r].args.playlist_id)
           row == {pl \in playlists : pl.id = playlistId}
       IN  \E threw \in BOOLEAN :
           /\ Fault(threw)
           /\ IF threw \/ row = {}
              THEN /\ Respond(r, 500, Error("Failed to delete playlist"))
                   /\ UNCHANGED <<playlists, playlistStories>>
              ELSE /\ playlists' = playlists \ row
                   /\ playlistStories' =
                          CascadeFromPlaylist(playlistStories, playlistId)
                   /\ Respond(r, 200, [message |-> "Playlist deleted successfully",
                                       id |-> playlistId])
    /\ UNCHANGED <<profiles, favorites, profileCategories, r2Objects, pre>>

(* ---------------------------------------------------------------------- *)
(* PUT /api/profiles/{id} : update profile                                 *)
(* ---------------------------------------------------------------------- *)
LowerOf(c) == IF c = "A" THEN "a" ELSE IF c = "B" THEN "b"
              ELSE IF c = "C" THEN "c" ELSE c

toLowerCase(s) == [i \in 1..Len(s) |-> LowerOf(s[i])]

isValidImageType(mimetype) ==
    mimetype \in {"image/jpeg", "image/jpg", "image/png", "image/webp", "image/gif"}

\* sizes in megabytes
getMaxFileSize(type) == IF type = "image" THEN 5 ELSE 50

NoFile == [name |-> "", type |-> "", size |-> 0]

\* the date_of_birth field: absent, well formed and past, malformed, future
DateError(date_of_birth) ==
    IF date_of_birth \in {"null", ""} THEN ""
    ELSE IF date_of_birth = "01/02/2020" THEN "Invalid date format. Use YYYY-MM-DD"
    ELSE IF date_of_birth = "2020-13-45" THEN "Invalid date"
    ELSE IF date_of_birth = "2999-01-01" THEN "Date of birth cannot be in the future"
    ELSE ""

UpdateForms ==
    [hasName : BOOLEAN, name : {<<>>, <<" ">>, <<"A">>, <<"c", " ">>},
     date_of_birth : {"null", "2020-01-02", "2999-01-01"},
     photo : {NoFile,
              [name |-> "p.png", type |-> "image/png", size |-> 1],
              [name |-> "p.pdf", type |-> "application/pdf", size |-> 1],
              [name |-> "p.gif", type |-> "image/gif", size |-> 6]}]

NoForm == [hasName |-> FALSE, name |-> <<>>, date_of_birth |-> "null",
           photo |-> NoFile]

\* generateOrganizedFileName('category', userId, name): a key under the
\* type, made of the user id and a fresh unique part
generateOrganizedFileName(type, userId, used) ==
    LET n == CHOOSE k \in 1..(Cardinality(used) + 1) :
                 /\ <<type, ToString(userId), ToString(k)>> \notin used
                 /\ \A j \in 1..(k - 1) :
                        <<type, ToString(userId), ToString(j)>> \in used
    IN  <<type, ToString(userId), ToString(n)>>

\* the request arrives: getAuthenticatedUser, parameter validation, then
\* prisma.profiles.findUnique and the ownership check
UpdateFindProfile(r) ==
    /\ req[r].pc = "idle"
    /\ \E user \in Users \cup {NoUser}, id \in PathParams, form \in UpdateForms :
        /\ ~form.hasName => form.name = <<>>
        \* a request refused before the handler reads an input carries one
        \* value of that input
        /\ (user = NoUser \/ isNaN(parseInt(id))) => form = NoForm
        /\ (form.hasName /\ Len(trim(form.name)) = 0)
             => form.date_of_birth = "null" /\ form.photo = NoFile
        /\ DateError(form.date_of_birth) # "" => form.photo = NoFile
        /\ user = NoUser => id = <<1>>
        /\ LET auth == getAuthenticatedUser(user)
               a == [id |-> id, form |-> form]
               profileId == parseInt(id)
               existingProfile == {p \in profiles : p.id = profileId}
               Reply(status, body) ==
                   Arrive(r, "updateProfile", auth.user, a, NoLoc, "done",
                          status, body)
           IN  IF auth.error # 0
               THEN Reply(auth.error, Error("Unauthorized")) /\ UNCHANGED faults
               ELSE IF isNaN(profileId)
               THEN Reply(400, Error("Invalid profile ID")) /\ UNCHANGED faults
               ELSE \E threw \in BOOLEAN :
                    /\ Fault(threw)
                    /\ (threw \/ existingProfile = {}
                        \/ \E p \in existingProfile : p.user_id # auth.user)
                         => form = NoForm
                    /\ IF threw
                       THEN Reply(500, Error("Failed to update profile"))
                       ELSE IF existingProfile = {}
                       THEN Reply(404, Error("Profile not found"))
                       ELSE IF (CHOOSE p \in existingProfile : TRUE).user_id # auth.user
                       THEN Reply(403, Error("Forbidden - you can only update your own profiles"))
                       ELSE Arrive(r, "updateProfile", auth.user, a,
                                   [existingProfile |-> CHOOSE p \in existingProfile : TRUE,
                                    photo_url |-> NoPhoto],
                                   "validate", 0, NoBody)
    /\ UNCHANGED <<db, r2Objects>>

\* the form is read and validated; prisma.profiles.findFirst looks for
\* another profile of the user with the same name; the photo is validated
UpdateValidate(r) ==
    /\ req[r].op = "updateProfile" /\ req[r].pc = "validate"
    /\ LET form == req[r].args.form
           profileId == parseInt(req[r].args.id)
           existingProfile == req[r].loc.existingProfile
           nameGiven == form.hasName /\ form.name # <<>>
           lookup == nameGiven /\ toLowerCase(trim(form.name))
                                    # toLowerCase(existingProfile.name)
           duplicateProfile ==
               {p \in profiles : /\ toLowerCase(p.name) = toLowerCase(form.name)
                                 /\ p.user_id = req[r].user
                                 /\ p.id # profileId}
           photo == form.photo
           upload == photo # NoFile /\ photo.size > 0
       IN  IF form.hasName /\ Len(trim(form.name)) = 0
           THEN Respond(r, 400, Error("Name cannot be empty")) /\ UNCHANGED faults
           ELSE IF DateError(form.date_of_birth) # ""
           THEN Respond(r, 400, Error(DateError(form.date_of_birth))) /\ UNCHANGED faults
           ELSE \E threw \in BOOLEAN :
                /\ threw => lookup
                /\ Fault(threw)
                /\ IF threw
                   THEN Respond(r, 500, Error("Failed to update profile"))
                   ELSE IF lookup /\ duplicateProfile # {}
                   THEN Respond(r, 409, Error("Profile with this name already exists"))
                   ELSE IF upload /\ ~isValidImageType(photo.type)
                   THEN Respond(r, 400, Error("Invalid file type"))
                   ELSE IF upload /\ photo.size > getMaxFileSize("image")
                   THEN Respond(r, 400, Error("File too large"))
                   ELSE Goto(r, IF ~upload THEN "update"
                                ELSE IF existingProfile.photo_url # NoPhoto
                                THEN "deleteOld" ELSE "put")
    /\ UNCHANGED <<db, r2Objects, pre>>

\* r2Client.send(DeleteObjectCommand) of the old photo, awaited; a failure
\* is caught and logged
UpdateDeleteOld(r) ==
    /\ req[r].op = "updateProfile" /\ req[r].pc = "deleteOld"
    /\ LET oldKey == PhotoKey(req[r].loc.existingProfile.photo_url)
       IN  \E threw \in BOOLEAN :
           /\ Fault(threw)
           /\ r2Objects' = IF threw THEN r2Objects ELSE r2Objects \ {oldKey}
    /\ Goto(r, "put")
    /\ UNCHANGED <<db, pre>>

\* r2Client.send(PutObjectCommand) under a generated key, awaited
UpdatePut(r) ==
    /\ req[r].op = "updateProfile" /\ req[r].pc = "put"
    /\ LET used == r2Objects \cup {PhotoKey(p.photo_url) : p \in profiles}
           key == generateOrganizedFileName("category", req[r].user, used)
       IN  \E threw \in BOOLEAN :
           /\ Fault(threw)
           /\ IF threw
              THEN /\ Respond(r, 500, Error("Failed to update profile"))
                   /\ UNCHANGED r2Objects
              ELSE /\ r2Objects' = r2Objects \cup {key}
                   /\ GotoWith(r, "update",
                               [req[r].loc EXCEPT
                                  !.photo_url = PUBLIC_URL \o <<"/">> \o key])
    /\ UNCHANGED <<db, pre>>

\* prisma.profiles.update with the fields that were given; fails when the
\* row is gone
UpdateProfileRow(r) ==
    /\ req[r].op = "updateProfile" /\ req[r].pc = "update"
    /\ LET form == req[r].args.form
           profileId == parseInt(req[r].args.id)
           row == {p \in profiles : p.id = profileId}
           old == CHOOSE p \in row : TRUE
           updatedProfile ==
               [old EXCEPT
                  !.name = IF form.hasName /\ form.name # <<>>
                           THEN trim(form.name) ELSE @,
                  !.photo_url = IF req[r].loc.photo_url # NoPhoto
                                THEN req[r].loc.photo_url ELSE @]
       IN  \E threw \in BOOLEAN :
           /\ Fault(threw)
           /\ IF threw \/ row = {}
              THEN /\ Respond(r, 500, Error("Failed to update profile"))
                   /\ UNCHANGED profiles
              ELSE /\ profiles' = (profiles \ row) \cup {updatedProfile}
                   /\ Respond(r, 200, updatedProfile)
    /\ UNCHANGED <<playlists, playlistStories, favorites, profileCategories,
                   r2Objects, pre>>

(* ---------------------------------------------------------------------- *)
(* POST /api/profiles : create profile                                     *)
(* ---------------------------------------------------------------------- *)
\* the name field of the form: absent, blank, and names in the cases and
\* with the trailing space that the comparison is about
CreateNames == {<<>>, <<" ">>, <<"A">>, <<"A", " ">>, <<"c">>}

\* the photo field of the form, a string: absent, or a URL
CreatePhotos == {NoPhoto, PUBLIC_URL \o <<"/", "profile", "n.jpg">>}

RoomForProfiles(n) ==
    Cardinality(profiles)
        + Cardinality({q \in Slots : /\ req[q].op = "createProfile"
                                      /\ req[q].pc \notin {"idle", "done"}})
        + n <= MaxProfiles

\* the data store's id of a new profiles row
ProfileId ==
    CHOOSE k \in 1..(Cardinality(profiles) + 1) :
        /\ k \notin Ids(profiles)
        /\ \A j \in 1..(k - 1) : j \in Ids(profiles)

\* the request arrives: getAuthenticatedUser, form validation, then
\* prisma.profiles.findFirst({name: {equals: name, mode: 'insensitive'},
\* user_id})
CreateProfileFind(r) ==
    /\ req[r].pc = "idle"
    /\ RoomForProfiles(1)
    /\ \E user \in Users \cup {NoUser}, name \in CreateNames,
          date_of_birth \in {"null", "2999-01-01"}, photo \in CreatePhotos :
        \* a request refused before the handler reads an input carries one
        \* value of that input
        /\ user = NoUser => name = <<"c">>
        /\ (user = NoUser \/ Len(trim(name)) = 0) => photo = NoPhoto
        /\ (user = NoUser \/ Len(trim(name)) = 0 \/ photo = NoPhoto)
              => date_of_birth = "null"
        /\ LET auth == getAuthenticatedUser(user)
               a == [name |-> name, date_of_birth |-> date_of_birth,
                     photo |-> photo]
               existingProfile ==
                   {p \in profiles : /\ toLowerCase(p.name) = toLowerCase(name)
                                     /\ p.user_id = auth.user}
               Reply(status, body) ==
                   Arrive(r, "createProfile", auth.user, a, NoLoc, "done",
                          status, body)
           IN  IF auth.error # 0
               THEN Reply(auth.error, Error("Unauthorized")) /\ UNCHANGED faults
               ELSE IF name = <<>> \/ Len(trim(name)) = 0
               THEN Reply(400, Error("Name is required")) /\ UNCHANGED faults
               ELSE IF photo = NoPhoto
               THEN Reply(400, Error("Photo is required")) /\ UNCHANGED faults
               ELSE IF DateError(date_of_birth) # ""
               THEN Reply(400, Error(DateError(date_of_birth))) /\ UNCHANGED faults
               ELSE \E threw \in BOOLEAN :
                    /\ Fault(threw)
                    /\ IF threw
                       THEN Reply(500, Error("Failed to create profile"))
                       ELSE IF existingProfile # {}
                       THEN Reply(409, Error("Profile with this name already exists"))
                       ELSE Arrive(r, "createProfile", auth.user, a, NoLoc,
                                   "create", 0, NoBody)
    /\ UNCHANGED <<db, r2Objects>>

\* prisma.profiles.create with name.trim(); a failure whose message holds
\* 'Unique constraint' is answered 409, any other 500.  Whether the table
\* has a unique constraint over (user_id, name) is the schema's choice:
\* both are allowed for
CreateProfileRow(r) ==
    /\ req[r].op = "createProfile" /\ req[r].pc = "create"
    /\ LET a == req[r].args
           profile == [id |-> ProfileId, user_id |-> req[r].user,
                       name |-> trim(a.name), photo_url |-> a.photo]
           same == \E p \in profiles : /\ p.user_id = profile.user_id
                                       /\ p.name = profile.name
       IN  \E threw \in BOOLEAN, constrained \in BOOLEAN :
           /\ constrained => same
           /\ Fault(threw)
           /\ IF threw
              THEN /\ Respond(r, 500, Error("Failed to create profile"))
                   /\ UNCHANGED profiles
              ELSE IF constrained
              THEN /\ Respond(r, 409, Error("Profile already exists"))
                   /\ UNCHANGED profiles
              ELSE /\ profiles' = profiles \cup {profile}
                   /\ Respond(r, 201, profile)
    /\ UNCHANGED <<playlists, playlistStories, favorites, profileCategories,
                   r2Objects, pre>>

(* ---------------------------------------------------------------------- *)
(* DELETE /api/profiles/{id} : delete profile                              *)
(*   "deleteProfile"          app/api/profiles/[id]/route.ts               *)
(*   "deleteProfileNoCleanup" the variant without the object-store step    *)
(* ---------------------------------------------------------------------- *)
\* rows the open transaction has deleted, and the counts it has returned
NoTx == [playlistStories |-> {}, playlists |-> {}, favorites |-> {},
         profileCategories |-> {}, profiles |-> {}]

NoCounts == [playlistStories |-> 0, playlists |-> 0, favorites |-> 0,
             profileCategories |-> 0]

\* what a statement of the transaction sees of a table
Visible(rows, deleted) == {x \in rows : x.id \notin deleted}

DeleteFailed(r) == Respond(r, 500, Error("Failed to delete profile"))

\* the request arrives: getAuthenticatedUser, parameter validation,
\* prisma.profiles.findUnique with its dependents, the ownership check and
\* playlistIds
DeleteFindProfile(r) ==
    /\ req[r].pc = "idle"
    /\ \E op \in DeleteOps, user \in Users \cup {NoUser}, id \in PathParams :
        /\ user = NoUser => id = <<1>>
        /\ LET auth == getAuthenticatedUser(user)
               a == [id |-> id]
               loc == [playlistIds |-> {}, photo_url |-> NoPhoto, tx |-> NoTx,
                       result |-> NoCounts, r2Issued |-> FALSE]
               profileId == parseInt(id)
               found == {q \in profiles : q.id = profileId}
               Reply(status, body) ==
                   Arrive(r, op, auth.user, a, loc, "done", status, body)
           IN  IF auth.error # 0
               THEN Reply(auth.error, Error("Unauthorized")) /\ UNCHANGED faults
               ELSE IF isNaN(profileId)
               THEN Reply(400, Error("Invalid profile ID")) /\ UNCHANGED faults
               ELSE \E threw \in BOOLEAN :
                    /\ Fault(threw)
                    /\ IF threw
                       THEN Reply(500, Error("Failed to delete profile"))
                       ELSE IF found = {}
                       THEN Reply(404, Error("Profile not found"))
                       ELSE LET profile == CHOOSE q \in found : TRUE
                            IN  IF profile.user_id # auth.user
                                THEN Reply(403, Error("Forbidden"))
                                ELSE Arrive(r, op, auth.user, a,
                                       [loc EXCEPT
                                          !.playlistIds =
                                              Ids({pl \in playlists :
                                                     pl.profile_id = profileId}),
                                          !.photo_url = profile.photo_url],
                                       "txPlaylistStories", 0, NoBody)
    /\ UNCHANGED <<db, r2Objects>>

\* one deleteMany of the transaction: the rows it matches are deleted in
\* the transaction and counted; a throw rolls the transaction back
TxDeleteMany(r, matched, table, next) ==
    \E threw \in BOOLEAN :
        /\ Fault(threw)
        /\ IF threw
           THEN DeleteFailed(r)
           ELSE GotoWith(r, next,
                  [req[r].loc EXCEPT
                     !.tx[table] = @ \cup Ids(matched),
                     !.result[table] = Cardinality(matched)])

\* the photo deleted from the object store before the transaction is run
TxPlaylistStories_cleanupFirst(r) ==
    /\ req[r].op \in DeleteOps /\ req[r].pc = "txPlaylistStories"
    /\ LET l == req[r].loc
           key == PhotoKey(l.photo_url)
           matched == {e \in Visible(playlistStories, l.tx.playlistStories) :
                          e.playlist_id \in l.playlistIds}
       IN  /\ r2Objects' = IF l.photo_url # NoPhoto /\ req[r].op = "deleteProfile"
                           THEN r2Objects \ {key} ELSE r2Objects
           /\ \E threw \in BOOLEAN :
               /\ Fault(threw)
               /\ IF threw
                  THEN DeleteFailed(r)
                  ELSE GotoWith(r, "txPlaylists",
                         [l EXCEPT
                            !.r2Issued = (l.photo_url # NoPhoto
                                          /\ req[r].op = "deleteProfile"),
                            !.tx.playlistStories = @ \cup Ids(matched),
                            !.result.playlistStories = Cardinality(matched)])
    /\ UNCHANGED <<db, pre>>

\* Step 1: tx.playlistStories.deleteMany, skipped when playlistIds is empty
TxPlaylistStories(r) ==
    /\ req[r].op \in DeleteOps /\ req[r].pc = "txPlaylistStories"
    /\ LET l == req[r].loc
           matched == {e \in Visible(playlistStories, l.tx.playlistStories) :
                          e.playlist_id \in l.playlistIds}
       IN  IF l.playlistIds # {}
           THEN TxDeleteMany(r, matched, "playlistStories", "txPlaylists")
           ELSE Goto(r, "txPlaylists") /\ UNCHANGED faults
    /\ UNCHANGED <<db, r2Objects, pre>>

\* Step 2 with no referential action: the entries of the playlists stay
TxPlaylists_noCascade(r) ==
    /\ req[r].op \in DeleteOps /\ req[r].pc = "txPlaylists"
    /\ LET l == req[r].loc
           profileId == parseInt(req[r].args.id)
           matched == {pl \in Visible(playlists, l.tx.playlists) :
                          pl.profile_id = profileId}
       IN  TxDeleteMany(r, matched, "playlists", "txFavorites")
    /\ UNCHANGED <<db, r2Objects, pre>>

\* the entries that go with the playlists deleted
CascadedEntries(rows, deletedPlaylists) ==
    {e \in rows : \E pl \in deletedPlaylists :
                     e \notin CascadeFromPlaylist(rows, pl.id)}

\* Step 2: tx.playlists.deleteMany; the entries still referencing one of
\* the playlists are deleted with it
TxPlaylists(r) ==
    /\ req[r].op \in DeleteOps /\ req[r].pc = "txPlaylists"
    /\ LET l == req[r].loc
           profileId == parseInt(req[r].args.id)
           matched == {pl \in Visible(playlists, l.tx.playlists) :
                          pl.profile_id = profileId}
           cascaded == CascadedEntries(
                          Visible(playlistStories, l.tx.playlistStories), matched)
       IN  \E threw \in BOOLEAN :
           /\ Fault(threw)
           /\ IF threw
              THEN DeleteFailed(r)
              ELSE GotoWith(r, "txFavorites",
                     [l EXCEPT
                        !.tx.playlists = @ \cup Ids(matched),
                        !.tx.playlistStories = @ \cup Ids(cascaded),
                        !.result.playlists = Cardinality(matched)])
    /\ UNCHANGED <<db, r2Objects, pre>>

\* Step 3 with the where clause left out: every favorite is deleted
TxFavorites_noWhere(r) ==
    /\ req[r].op \in DeleteOps /\ req[r].pc = "txFavorites"
    /\ LET l == req[r].loc
           matched == Visible(favorites, l.tx.favorites)
       IN  TxDeleteMany(r, matched, "favorites", "txProfileCategories")
    /\ UNCHANGED <<db, r2Objects, pre>>

\* Step 3: tx.favorites.deleteMany
TxFavorites(r) ==
    /\ req[r].op \in DeleteOps /\ req[r].pc = "txFavorites"
    /\ LET l == req[r].loc
           matched == {f \in Visible(favorites, l.tx.favorites) :
                          f.profile_id = parseInt(req[r].args.id)}
       IN  TxDeleteMany(r, matched, "favorites", "txProfileCategories")
    /\ UNCHANGED <<db, r2Objects, pre>>

\* Step 4: tx.profileCategories.deleteMany
TxProfileCategories(r) ==
    /\ req[r].op \in DeleteOps /\ req[r].pc = "txProfileCategories"
    /\ LET l == req[r].loc
           matched == {c \in Visible(profileCategories, l.tx.profileCategories) :
                          c.profile_id = parseInt(req[r].args.id)}
       IN  TxDeleteMany(r, matched, "profileCategories", "txProfile")
    /\ UNCHANGED <<db, r2Objects, pre>>

\* Step 5: tx.profiles.delete; fails when the row is gone or a dependent
\* row still references it
TxProfile(r) ==
    /\ req[r].op \in DeleteOps /\ req[r].pc = "txProfile"
    /\ LET l == req[r].loc
           profileId == parseInt(req[r].args.id)
           row == {p \in Visible(profiles, l.tx.profiles) : p.id = profileId}
           referenced ==
               \/ \E pl \in Visible(playlists, l.tx.playlists) :
                     pl.profile_id = profileId
               \/ \E f \in Visible(favorites, l.tx.favorites) :
                     f.profile_id = profileId
               \/ \E c \in Visible(profileCategories, l.tx.profileCategories) :
                     c.profile_id = profileId
       IN  \E threw \in BOOLEAN :
           /\ Fault(threw)
           /\ IF threw \/ row = {} \/ referenced
              THEN DeleteFailed(r)
              ELSE GotoWith(r, "commit",
                            [l EXCEPT !.tx.profiles = @ \cup Ids(row)])
    /\ UNCHANGED <<db, r2Objects, pre>>

\* the deletions written outside a transaction: a throw at the end leaves
\* the earlier deletions in place
TxCommit_noRollback(r) ==
    /\ req[r].op \in DeleteOps /\ req[r].pc = "commit"
    /\ LET tx == req[r].loc.tx
       IN  \E threw \in BOOLEAN :
           /\ Fault(threw)
           /\ playlistStories' = Visible(playlistStories, tx.playlistStories)
           /\ playlists' = Visible(playlists, tx.playlists)
           /\ favorites' = Visible(favorites, tx.favorites)
           /\ profileCategories' =
                  Visible(profileCategories, tx.profileCategories)
           /\ IF threw
              THEN /\ DeleteFailed(r)
                   /\ UNCHANGED profiles
              ELSE /\ profiles' = Visible(profiles, tx.profiles)
                   /\ Goto(r, IF req[r].op = "deleteProfile"
                              THEN "cleanup" ELSE "respond")
    /\ UNCHANGED <<r2Objects, pre>>

\* prisma.$transaction returns: the deletions are committed together, or
\* the commit throws and none is
TxCommit(r) ==
    /\ req[r].op \in DeleteOps /\ req[r].pc = "commit"
    /\ LET tx == req[r].loc.tx
       IN  \E threw \in BOOLEAN :
           /\ Fault(threw)
           /\ IF threw
              THEN /\ DeleteFailed(r)
                   /\ UNCHANGED <<profiles, playlists, playlistStories,
                                  favorites, profileCategories>>
              ELSE /\ playlistStories' = Visible(playlistStories, tx.playlistStories)
                   /\ playlists' = Visible(playlists, tx.playlists)
                   /\ favorites' = Visible(favorites, tx.favorites)
                   /\ profileCategories' =
                          Visible(profileCategories, tx.profileCategories)
                   /\ profiles' = Visible(profiles, tx.profiles)
                   /\ Goto(r, IF req[r].op = "deleteProfile"
                              THEN "cleanup" ELSE "respond")
    /\ UNCHANGED <<r2Objects, pre>>

\* Step 6 without its try/catch: a throw of the object store reaches the
\* handler's catch block
DeleteCleanup_rethrow(r) ==
    /\ req[r].op = "deleteProfile" /\ req[r].pc = "cleanup"
    /\ LET key == PhotoKey(req[r].loc.photo_url)
       IN  IF req[r].loc.photo_url # NoPhoto
           THEN \E threw \in BOOLEAN :
                /\ Fault(threw)
                /\ r2Objects' = IF threw THEN r2Objects ELSE r2Objects \ {key}
                /\ IF threw
                   THEN req' = [req EXCEPT ![r].pc = "done", ![r].status = 500,
                                   ![r].body = Error("Failed to delete profile"),
                                   ![r].loc.r2Issued = TRUE]
                   ELSE GotoWith(r, "respond",
                                 [req[r].loc EXCEPT !.r2Issued = TRUE])
           ELSE /\ Goto(r, "respond")
                /\ UNCHANGED <<r2Objects, faults>>
    /\ UNCHANGED <<db, pre>>

\* Step 6 with the send not awaited: the handler goes on to the response
\* and the object store is reached, if at all, after it
DeleteCleanup_notAwaited(r) ==
    /\ req[r].op = "deleteProfile" /\ req[r].pc = "cleanup"
    /\ Goto(r, "respond")
    /\ UNCHANGED <<db, r2Objects, pre, faults>>

\* Step 6: r2Client.send(DeleteObjectCommand) when photo_url is set; a
\* throw is caught and logged
DeleteCleanup(r) ==
    /\ req[r].op = "deleteProfile" /\ req[r].pc = "cleanup"
    /\ LET key == PhotoKey(req[r].loc.photo_url)
       IN  IF req[r].loc.photo_url # NoPhoto
           THEN \E threw \in BOOLEAN :
                /\ Fault(threw)
                /\ r2Objects' = IF threw THEN r2Objects ELSE r2Objects \ {key}
                /\ GotoWith(r, "respond", [req[r].loc EXCEPT !.r2Issued = TRUE])
           ELSE /\ Goto(r, "respond")
                /\ UNCHANGED <<r2Objects, faults>>
    /\ UNCHANGED <<db, pre>>

\* the photo indicator reporting whether the object was deleted
DeleteRespond_photoDeleted(r) ==
    /\ req[r].op \in DeleteOps /\ req[r].pc = "respond"
    /\ Respond(r, 200, [id |-> parseInt(req[r].args.id),
                        deleted |-> req[r].loc.result,
                        photo |-> (req[r].loc.r2Issued /\
                                   PhotoKey(req[r].loc.photo_url) \notin r2Objects)])
    /\ UNCHANGED <<db, r2Objects, pre, faults>>

\* the success response with the counts and the photo indicator
DeleteRespond(r) ==
    /\ req[r].op \in DeleteOps /\ req[r].pc = "respond"
    /\ Respond(r, 200, [id |-> parseInt(req[r].args.id),
                        deleted |-> req[r].loc.result,
                        photo |-> req[r].loc.photo_url # NoPhoto])
    /\ UNCHANGED <<db, r2Objects, pre, faults>>

(* ---------------------------------------------------------------------- *)
(* Specifications                                                          *)
(* ---------------------------------------------------------------------- *)
CreatePlaylist(r) ==
    \/ CreateFindProfile(r)
    \/ CreateFindStories(r)
    \/ CreatePlaylistRows(r)

AddStory(r) ==
    \/ AddFindPlaylist(r)
    \/ AddFindStory(r)
    \/ AddFindExisting(r)
    \/ AddShift(r)
    \/ AddCreate(r)

RemoveStory(r) ==
    \/ RemoveFindPlaylist(r)
    \/ RemoveFindEntry(r)
    \/ RemoveDelete(r)
    \/ RemoveDecrement(r)

CreateFavorite(r) ==
    \/ FavoriteFindFirst(r)
    \/ FavoriteCreate(r)

RemoveFavorite(r) ==
    \/ RemoveFavoriteFindProfile(r)
    \/ RemoveFavoriteFindFirst(r)
    \/ RemoveFavoriteDelete(r)

RenamePlaylist(r) ==
    \/ RenameFindPlaylist(r)
    \/ RenameUpdate(r)

DeletePlaylist(r) ==
    \/ DeletePlaylistFind(r)
    \/ DeletePlaylistRow(r)

CreateProfile(r) ==
    \/ CreateProfileFind(r)
    \/ CreateProfileRow(r)

UpdateProfile(r) ==
    \/ UpdateFindProfile(r)
    \/ UpdateValidate(r)
    \/ UpdateDeleteOld(r)
    \/ UpdatePut(r)
    \/ UpdateProfileRow(r)

\* the steps of a delete-profile request after it has arrived
DeleteProfileSteps(r) ==
    \/ TxPlaylistStories(r)
    \/ TxPlaylists(r)
    \/ TxFavorites(r)
    \/ TxProfileCategories(r)
    \/ TxProfile(r)
    \/ TxCommit(r)
    \/ DeleteCleanup(r)
    \/ DeleteRespond(r)

DeleteProfile(r) ==
    \/ DeleteFindProfile(r)
    \/ DeleteProfileSteps(r)

\* the request taken in this step is anonymous or of the first user
OneCaller(r) == req'[r].user \in {NoUser, 1}

\* every handler, one request at a time
Next ==
    \E r \in SeqSlots :
        \/ Return(r)
        \/ CreatePlaylist(r)
        \/ AddStory(r)
        \/ RemoveStory(r)
        \/ CreateFavorite(r)
        \/ RemoveFavorite(r)
        \/ DeleteProfile(r)
        \/ RenamePlaylist(r)
        \/ DeletePlaylist(r)
        \/ UpdateProfile(r)
        \/ CreateProfile(r)

Spec == Init /\ [][Next]_vars

\* the favorites handlers, one request at a time
NextFavorites ==
    \E r \in SeqSlots :
        \/ Return(r)
        \/ CreateFavorite(r)
        \/ RemoveFavorite(r)

SpecFavorites == Init /\ [][NextFavorites]_vars

\* create favorite requests handled concurrently: the steps of two requests
\* interleave at their data-store calls
NextConcurrentFavorite ==
    \E r \in Slots :
        \/ Return(r)
        \/ CreateFavorite(r) /\ OneCaller(r)

SpecConcurrentFavorite == Init /\ [][NextConcurrentFavorite]_vars

\* A state the create handlers lead to: each profile has a playlist holding
\* story 1 and has story 1 as a favorite.
OwnedPlaylists ==
    {[id |-> p, profile_id |-> p, name |-> <<"a">>] : p \in {1, 2}}

OwnedEntries ==
    {[id |-> <<p, 1, 1>>, playlist_id |-> p, story_id |-> 1, order |-> 0] :
        p \in {1, 2}}

OwnedFavorites ==
    {[id |-> <<p, 1, 1>>, profile_id |-> p, story_id |-> 1] : p \in {1, 2}}

InitOwned ==
    /\ profiles = SeedProfiles
    /\ playlists = OwnedPlaylists
    /\ playlistStories = OwnedEntries
    /\ favorites = OwnedFavorites
    /\ profileCategories = SeedProfileCategories
    /\ r2Objects = {PhotoKey(p.photo_url) : p \in {q \in SeedProfiles : q.photo_url # NoPhoto}}
    /\ req = [r \in Slots |-> Idle]
    /\ pre = [r \in Slots |-> NoSnapshot]
    /\ faults = 0

\* the handlers that check the caller against the owner of an existing
\* profile or playlist, one request at a time, the caller being the owner of
\* profile 1 and not of profile 2
NextOwnership ==
    \E r \in SeqSlots :
        \/ Return(r)
        \/ AddStory(r) /\ OneCaller(r)
        \/ RemoveStory(r) /\ OneCaller(r)
        \/ RenamePlaylist(r) /\ OneCaller(r)
        \/ DeletePlaylist(r) /\ OneCaller(r)
        \/ UpdateProfile(r) /\ OneCaller(r)
        \/ DeleteProfile(r) /\ OneCaller(r)
        \/ RemoveFavorite(r) /\ OneCaller(r)

SpecOwnership == InitOwned /\ [][NextOwnership]_vars

\* A state create playlist leads to: profile 1 has a playlist holding story 1.
InitOnePlaylist ==
    /\ profiles = SeedProfiles
    /\ playlists = {pl \in OwnedPlaylists : pl.id = 1}
    /\ playlistStories = {e \in OwnedEntries : e.playlist_id = 1}
    /\ favorites = {}
    /\ profileCategories = SeedProfileCategories
    /\ r2Objects = {PhotoKey(p.photo_url) : p \in {q \in SeedProfiles : q.photo_url # NoPhoto}}
    /\ req = [r \in Slots |-> Idle]
    /\ pre = [r \in Slots |-> NoSnapshot]
    /\ faults = 0

\* A state create playlist and add story lead to: the playlist of profile 1
\* holds the stories 1, 2, 3 in this order.
FullEntries ==
    {[id |-> <<1, st, 1>>, playlist_id |-> 1, story_id |-> st, order |-> st - 1] :
        st \in Stories}

InitFullPlaylist ==
    /\ profiles = SeedProfiles
    /\ playlists = {pl \in OwnedPlaylists : pl.id = 1}
    /\ playlistStories = FullEntries
    /\ favorites = {}
    /\ profileCategories = SeedProfileCategories
    /\ r2Objects = {PhotoKey(p.photo_url) : p \in {q \in SeedProfiles : q.photo_url # NoPhoto}}
    /\ req = [r \in Slots |-> Idle]
    /\ pre = [r \in Slots |-> NoSnapshot]
    /\ faults = 0

\* remove story requests handled concurrently: the steps of two requests
\* interleave at their data-store calls
NextConcurrentRemove ==
    \E r \in Slots :
        \/ Return(r)
        \/ RemoveStory(r) /\ OneCaller(r)

SpecConcurrentRemove == InitFullPlaylist /\ [][NextConcurrentRemove]_vars

\* add story requests handled concurrently: the steps of two requests
\* interleave at their data-store calls
NextConcurrentAdd ==
    \E r \in Slots :
        \/ Return(r)
        \/ AddStory(r) /\ OneCaller(r)

SpecConcurrentAdd == InitOnePlaylist /\ [][NextConcurrentAdd]_vars

\* the request taken in this step is anonymous or of the first user, and
\* an update changes the name alone
NameRequest(r) ==
    LET a == req'[r].args
    IN  /\ OneCaller(r)
        /\ "form" \in DOMAIN a => /\ a.form.date_of_birth = "null"
                                   /\ a.form.photo = NoFile

\* the handlers that write profile names, one request at a time
NextProfiles ==
    \E r \in SeqSlots :
        \/ Return(r)
        \/ CreateProfile(r) /\ NameRequest(r)
        \/ UpdateProfile(r) /\ NameRequest(r)

SpecProfiles == Init /\ [][NextProfiles]_vars

\* the request taken in this step is of the first user and about that
\* user's profile: a playlist of story 1 created for it, story 2 added to
\* a playlist at its end or its head, the profile deleted by the current
\* handler; of the calls, those of the delete-profile request may throw
SameProfile(r) ==
    LET a == req'[r].args
    IN  /\ req'[r].user = 1
        /\ \A f \in DOMAIN a \cap {"profile_id", "id"} : a[f] = <<1>>
        /\ "playlist_id" \in DOMAIN a => ~isNaN(parseInt(a.playlist_id))
        /\ "name" \in DOMAIN a => Len(trim(a.name)) > 0
        /\ "story_ids" \in DOMAIN a => a.story_ids = <<1>>
        /\ "story_id" \in DOMAIN a => a.story_id = 2
        /\ "position" \in DOMAIN a => a.position = 0
        /\ req'[r].op \notin DeleteOps => faults' = faults
        /\ req'[r].op # "deleteProfileNoCleanup"

\* a delete-profile request handled while create playlist and add story
\* requests for the same profile are: the steps interleave at the
\* data-store calls, the statements of the transaction included
NextConcurrentDelete ==
    \/ \E r \in Slots : Return(r)
    \/ DeleteProfile(1) /\ SameProfile(1)
    \/ CreatePlaylist(2) /\ SameProfile(2)
    \/ AddStory(2) /\ SameProfile(2)

SpecConcurrentDelete == InitOnePlaylist /\ [][NextConcurrentDelete]_vars

\* the request taken in this step is anonymous, or it is a request of the
\* first user about that user's profile, its first playlist and story 1
OwnRequest(r) ==
    LET a == req'[r].args
    IN  /\ OneCaller(r)
        /\ req'[r].user # NoUser =>
             /\ \A f \in DOMAIN a \cap {"playlist_id", "profile_id", "id"} :
                    a[f] = <<1>>
             /\ "story_id" \in DOMAIN a =>
                    IF req'[r].op = "addStory" THEN a.story_id = 1
                    ELSE a.story_id = <<1>>
             /\ "story_ids" \in DOMAIN a => a.story_ids = <<1>>
             /\ "name" \in DOMAIN a => Len(trim(a.name)) > 0
             /\ "form" \in DOMAIN a =>
                    /\ a.form.date_of_birth = "null"
                    /\ a.form.photo.type \in {"", "image/png"}
                    /\ a.form.hasName => a.form.name = <<"c", " ">>

\* every handler, one request at a time, anonymous or of the first user
NextAuth ==
    \E r \in SeqSlots :
        \/ Return(r)
        \/ CreatePlaylist(r) /\ OwnRequest(r)
        \/ AddStory(r) /\ OwnRequest(r)
        \/ RemoveStory(r) /\ OwnRequest(r)
        \/ RenamePlaylist(r) /\ OwnRequest(r)
        \/ DeletePlaylist(r) /\ OwnRequest(r)
        \/ CreateFavorite(r) /\ OwnRequest(r)
        \/ RemoveFavorite(r) /\ OwnRequest(r)
        \/ UpdateProfile(r) /\ OwnRequest(r)
        \/ DeleteProfile(r) /\ OwnRequest(r)

SpecAuth == Init /\ [][NextAuth]_vars

\* the playlist handlers (ordered-collection maintenance), one request at
\* a time, the requests of one user: the playlists of both profiles are
\* within the user's reach, since 'create playlist' takes any profile
NextPlaylist ==
    \E r \in SeqSlots :
        \/ Return(r)
        \/ CreatePlaylist(r) /\ OneCaller(r)
        \/ AddStory(r) /\ OneCaller(r)
        \/ RemoveStory(r) /\ OneCaller(r)

SpecPlaylist == Init /\ [][NextPlaylist]_vars

\* profile deletion over playlists and favorites created by their
\* handlers, one request at a time; the rows are created by requests of one
\* user ('create playlist' and 'create favorite' take any profile) and
\* either user deletes
NextDelete ==
    \E r \in SeqSlots :
        \/ Return(r)
        \/ CreatePlaylist(r) /\ OneCaller(r)
        \/ CreateFavorite(r) /\ OneCaller(r)
        \/ DeleteProfile(r)

SpecDelete == Init /\ [][NextDelete]_vars

\* a request that has arrived is run to its response: every await of the
\* handler settles
FairDelete ==
    \A r \in SeqSlots :
        WF_vars(DeleteProfileSteps(r))

\* profile deletion over playlists created by their handler
NextDeleteLive ==
    \E r \in SeqSlots :
        \/ Return(r)
        \/ CreatePlaylist(r)
        \/ DeleteProfile(r)

SpecDeleteLive == Init /\ [][NextDeleteLive]_vars /\ FairDelete

(* ---------------------------------------------------------------------- *)
(* Properties of the playlist handlers                                     *)
(* ---------------------------------------------------------------------- *)
Orders(rows) == {e.order : e \in rows}

\* the order values of the rows are exactly 0..n-1, each once
DenseRows(rows) ==
    /\ Orders(rows) = 0..(Cardinality(rows) - 1)
    /\ Cardinality(Orders(rows)) = Cardinality(rows)

\* the entries of the request's playlist when the request began
EntriesBefore(r) ==
    {e \in pre[r].playlistStories :
        e.playlist_id = parseInt(req[r].args.playlist_id)}

EntriesNow(r) == EntriesOf(parseInt(req[r].args.playlist_id))

Finished(r, op, status) ==
    req[r].op = op /\ req[r].pc = "done" /\ req[r].status = status

\* C1: between requests (no request in flight) the order values of every
\* playlist are exactly {0, ..., n-1}, n its number of entries.
C1_Density ==
    (\A r \in SeqSlots : req[r].pc \in {"idle", "done"}) =>
        \A pl \in playlists : DenseRows(EntriesOf(pl.id))

\* C2: a successful add with explicit position k, 0 <= k <= n, on a dense
\* playlist of n entries stores the new entry with order k, adds one to
\* every order that was >= k and keeps every order that was < k.
C2_InsertAtPosition ==
    \A r \in SeqSlots :
        LET k == req[r].args.position
            before == EntriesBefore(r)
            n == Cardinality(before)
        IN  ( /\ Finished(r, "addStory", 201)
              /\ req[r].args.hasPosition
              /\ DenseRows(before)
              /\ 0 <= k /\ k <= n )
            => /\ Cardinality(EntriesNow(r)) = n + 1
               /\ \E e \in EntriesNow(r) :
                     /\ e.id \notin Ids(before)
                     /\ e.story_id = req[r].args.story_id
                     /\ e.order = k
                     /\ req[r].body = e
               /\ \A b \in before :
                     [b EXCEPT !.order = IF b.order >= k THEN @ + 1 ELSE @]
                         \in EntriesNow(r)

\* C2 witness: an insert strictly inside a playlist of two entries
C2_Witness ==
    \E r \in SeqSlots :
        /\ Finished(r, "addStory", 201)
        /\ req[r].args.hasPosition
        /\ req[r].args.position = 1
        /\ DenseRows(EntriesBefore(r))
        /\ Cardinality(EntriesBefore(r)) = 2

\* C3: a successful remove of the entry with order p from a dense playlist
\* deletes that entry, subtracts one from every order that was > p and
\* keeps every order that was < p.
C3_RemoveAtPosition ==
    \A r \in SeqSlots :
        LET before == EntriesBefore(r)
            target == {b \in before : b.story_id = parseInt(req[r].args.story_id)}
        IN  ( /\ Finished(r, "removeStory", 200)
              /\ DenseRows(before) )
            => /\ Cardinality(target) = 1
               /\ \A t \in target :
                     /\ t.id \notin Ids(EntriesNow(r))
                     /\ EntriesNow(r) =
                           {[b EXCEPT !.order = IF b.order > t.order
                                                THEN @ - 1 ELSE @] :
                               b \in before \ target}

\* C3 witness: the middle entry of a playlist of three entries is removed
C3_Witness ==
    \E r \in SeqSlots :
        /\ Finished(r, "removeStory", 200)
        /\ DenseRows(EntriesBefore(r))
        /\ Cardinality(EntriesBefore(r)) = 3
        /\ \E b \in EntriesBefore(r) :
              b.story_id = parseInt(req[r].args.story_id) /\ b.order = 1

\* C4: an add with explicit position that ends in the error response
\* leaves the playlist entries and their order values as they were before
\* the request.
C4_InsertAtomic ==
    \A r \in SeqSlots :
        (Finished(r, "addStory", 500) /\ req[r].args.hasPosition)
            => playlistStories = pre[r].playlistStories

\* C5: a remove that ends in the error response leaves the playlist
\* entries and their order values as they were before the request.
C5_RemoveAtomic ==
    \A r \in SeqSlots :
        Finished(r, "removeStory", 500)
            => playlistStories = pre[r].playlistStories

(* ---------------------------------------------------------------------- *)
(* Properties of profile deletion                                          *)
(* ---------------------------------------------------------------------- *)
Deleting(r) == req[r].op \in DeleteOps

TargetId(r) == parseInt(req[r].args.id)

\* the rows of the target profile in a snapshot of the store
OwnPlaylists(s, p) == {pl \in s.playlists : pl.profile_id = p}
OwnEntries(s, p) ==
    {e \in s.playlistStories : e.playlist_id \in Ids(OwnPlaylists(s, p))}
OwnFavorites(s, p) == {f \in s.favorites : f.profile_id = p}
OwnCategories(s, p) == {c \in s.profileCategories : c.profile_id = p}
OwnProfile(s, p) == {q \in s.profiles : q.id = p}

Now == [profiles |-> profiles, playlists |-> playlists,
        playlistStories |-> playlistStories, favorites |-> favorites,
        profileCategories |-> profileCategories]

Tables(s) == <<s.profiles, s.playlists, s.playlistStories, s.favorites,
               s.profileCategories>>

\* C6: after a successful delete profile no playlist entry, playlist,
\* favorite, category link or profile row of the profile remains, the
\* counts of the response are the numbers of such rows before the request,
\* and the rows of other profiles are as before.
C6_DeleteComplete ==
    \A r \in SeqSlots :
        LET p == TargetId(r)
            s == pre[r]
        IN  (Deleting(r) /\ req[r].pc = "done" /\ req[r].status = 200)
            => /\ playlistStories = s.playlistStories \ OwnEntries(s, p)
               /\ playlists = s.playlists \ OwnPlaylists(s, p)
               /\ favorites = s.favorites \ OwnFavorites(s, p)
               /\ profileCategories = s.profileCategories \ OwnCategories(s, p)
               /\ profiles = s.profiles \ OwnProfile(s, p)
               /\ OwnProfile(s, p) # {}
               /\ OwnPlaylists(Now, p) = {} /\ OwnFavorites(Now, p) = {}
               /\ OwnCategories(Now, p) = {} /\ OwnProfile(Now, p) = {}
               /\ req[r].body.deleted =
                     [playlistStories |-> Cardinality(OwnEntries(s, p)),
                      playlists |-> Cardinality(OwnPlaylists(s, p)),
                      favorites |-> Cardinality(OwnFavorites(s, p)),
                      profileCategories |-> Cardinality(OwnCategories(s, p))]

\* C6 witness: a profile with two playlists, three entries, a favorite and
\* two category links has been deleted while another profile has rows
C6_Witness ==
    \E r \in SeqSlots :
        /\ req[r].op = "deleteProfile" /\ req[r].pc = "done"
        /\ req[r].status = 200
        /\ req[r].body.deleted = [playlistStories |-> 3, playlists |-> 2,
                                  favorites |-> 1, profileCategories |-> 2]
        /\ profileCategories # {}

\* C7: while the transaction of delete profile is open, and after any
\* delete profile that did not succeed, every row that existed before the
\* request still exists; a throw of one of its steps ends the request with
\* the 500 response.
C7_DeleteRollback ==
    /\ [](\A r \in SeqSlots :
            ( /\ Deleting(r)
              /\ \/ req[r].pc \in TxPcs
                 \/ req[r].pc = "done" /\ req[r].status # 200 )
            => Tables(Now) = Tables(pre[r]))
    /\ [][\A r \in SeqSlots :
            (Deleting(r) /\ req[r].pc \in TxPcs /\ faults' > faults)
            => /\ req'[r].pc = "done" /\ req'[r].status = 500
               /\ Tables(Now)' = Tables(pre[r])]_vars

\* C7 witness: the last step failed after the earlier steps had matched
\* playlists, a favorite and category links
C7_Witness ==
    \E r \in SeqSlots :
        /\ Deleting(r) /\ req[r].pc = "done" /\ req[r].status = 500
        /\ req[r].loc.tx.playlistStories # {}
        /\ req[r].loc.tx.playlists # {}
        /\ req[r].loc.tx.favorites # {}
        /\ req[r].loc.tx.profileCategories # {}

\* the transaction of the request has committed: the profile row that
\* existed when the request began is gone
Committed(r) ==
    /\ Deleting(r)
    /\ OwnProfile(pre[r], TargetId(r)) # {}
    /\ OwnProfile(Now, TargetId(r)) = {}

\* C8: the object-store delete of delete profile is issued only once the
\* transaction has committed; a request that is rejected (400, 401, 403,
\* 404) or whose transaction fails (500) issues none and leaves the object
\* store as it was.
C8_CleanupAfterCommit ==
    \A r \in SeqSlots :
        Deleting(r) =>
            /\ (req[r].loc.r2Issued \/ r2Objects # pre[r].r2Objects)
                  => Committed(r) /\ req[r].pc \in {"respond", "done"}
            /\ (req[r].pc = "done" /\ req[r].status # 200)
                  => ~req[r].loc.r2Issued /\ r2Objects = pre[r].r2Objects

\* C8 witness: the photo has been deleted from the object store after the
\* commit
C8_Witness ==
    \E r \in SeqSlots :
        /\ req[r].op = "deleteProfile" /\ req[r].pc = "done"
        /\ req[r].status = 200
        /\ req[r].loc.r2Issued
        /\ PhotoKey(req[r].loc.photo_url) \in pre[r].r2Objects \ r2Objects

\* C9: a delete profile whose transaction committed ends with the success
\* response also when the object-store delete threw, and deleted.photo is
\* true exactly when the profile had a photo URL.
C9_BestEffortCleanup ==
    \A r \in SeqSlots :
        (Deleting(r) /\ req[r].pc = "done") =>
            /\ Committed(r) => req[r].status = 200
            /\ req[r].status = 200 =>
                  \A q \in OwnProfile(pre[r], TargetId(r)) :
                      req[r].body.photo = (q.photo_url # NoPhoto)

\* C9 witness: success response with photo = true although the object is
\* still in the object store (its delete threw)
C9_Witness ==
    \E r \in SeqSlots :
        /\ req[r].op = "deleteProfile" /\ req[r].pc = "done"
        /\ req[r].status = 200
        /\ req[r].loc.r2Issued
        /\ PhotoKey(req[r].loc.photo_url) \in r2Objects
        /\ req[r].body.photo

\* the states of the delete operation
DbTransactionCommitted(r) ==
    req[r].op = "deleteProfile" /\ req[r].pc = "cleanup"
AssetCleanupAttempted(r) ==
    req[r].op = "deleteProfile" /\ req[r].pc = "respond"
Done(r) == req[r].op = "deleteProfile" /\ req[r].pc = "done"

\* C10: a delete request whose transaction has committed passes through
\* the asset cleanup to Done with the success response, whatever the
\* cleanup did; from DbTransactionCommitted on, no step brings back a
\* deleted row or ends the request with an error response.
C10_DeleteStateMachine ==
    /\ \A r \in SeqSlots :
          DbTransactionCommitted(r) ~> AssetCleanupAttempted(r)
    /\ \A r \in SeqSlots :
          AssetCleanupAttempted(r) ~> (Done(r) /\ req[r].status = 200)
    /\ [][\A r \in SeqSlots :
            (DbTransactionCommitted(r) \/ AssetCleanupAttempted(r))
            => /\ \/ DbTransactionCommitted(r) /\ AssetCleanupAttempted(r)'
                  \/ AssetCleanupAttempted(r) /\ Done(r)'
                     /\ req'[r].status = 200
               /\ Tables(Now)' = Tables(Now)
               /\ Committed(r)']_vars

\* C10 witness: the cleanup stage has been passed with a failed
\* object-store delete and the response is still to be sent
C10_Witness ==
    \E r \in SeqSlots :
        /\ AssetCleanupAttempted(r)
        /\ req[r].loc.r2Issued
        /\ PhotoKey(req[r].loc.photo_url) \in r2Objects

(* ---------------------------------------------------------------------- *)
(* Properties of the response of 'delete profile' and of the refusals     *)
(* ---------------------------------------------------------------------- *)
\* the handler has reached the send of the DeleteObjectCommand and the call
\* has not settled
ObjectStoreDeletePending(r) ==
    /\ req[r].op = "deleteProfile" /\ req[r].pc = "cleanup"
    /\ req[r].loc.photo_url # NoPhoto

\* C11: the success response of 'delete profile' does not wait for the
\* object-store delete: while the call is pending the response can be
\* emitted.
C11_FireAndForget ==
    \A r \in SeqSlots :
        ObjectStoreDeletePending(r) => ENABLED DeleteRespond(r)

\* C11 as amended: the success response of 'delete profile' for a profile
\* with a photo is emitted only after the object-store delete call has
\* settled, whatever its outcome.
C11_ResponseAfterCleanup ==
    \A r \in SeqSlots :
        /\ (Finished(r, "deleteProfile", 200) /\ req[r].loc.photo_url # NoPhoto)
               => req[r].loc.r2Issued
        /\ ObjectStoreDeletePending(r) => req[r].status = 0

\* C11 witness: the response has followed an object-store delete that
\* settled with the object removed
C11_Witness ==
    \E r \in SeqSlots :
        /\ Finished(r, "deleteProfile", 200)
        /\ req[r].loc.r2Issued
        /\ req[r].body.photo
        /\ PhotoKey(req[r].loc.photo_url) \notin r2Objects

\* the request's story had an entry in the request's playlist when the
\* request began
HadEntry(r) ==
    \E e \in EntriesBefore(r) : e.story_id = req[r].args.story_id

\* C12: an add for a story that already has an entry in the playlist is
\* answered 409 (when it is not refused as unauthenticated or forbidden and
\* no call throws) and never 201; a 409 is answered only for such a story
\* and leaves every entry and order value as it was.
C12_DuplicateRejected ==
    \A r \in SeqSlots :
        (req[r].op = "addStory" /\ req[r].pc = "done")
            => /\ (HadEntry(r) /\ req[r].status \notin {401, 403, 500})
                      => req[r].status = 409
               /\ req[r].status = 409
                      => /\ HadEntry(r)
                         /\ playlistStories = pre[r].playlistStories

\* C12 witness: a 409 for an explicit position at the head of a playlist
\* of two entries
C12_Witness ==
    \E r \in SeqSlots :
        /\ Finished(r, "addStory", 409)
        /\ req[r].args.hasPosition /\ req[r].args.position = 0
        /\ Cardinality(EntriesBefore(r)) = 2

\* the favorites rows of the request's (profile, story) pair when the
\* request began
PairBefore(r) ==
    {f \in pre[r].favorites :
        /\ f.profile_id = parseInt(req[r].args.profile_id)
        /\ f.story_id = parseInt(req[r].args.story_id)}

\* C13: between the steps of a sequential run of 'create favorite' and
\* 'remove favorite' requests no two favorites rows have the same
\* (profile, story) pair, and a 'create favorite' for a pair that has a row
\* is answered 409 (unless unauthenticated or a call throws) and creates
\* no row; 409 is answered for no other pair.
C13_FavoriteUnique ==
    /\ \A f, g \in favorites :
          (f.profile_id = g.profile_id /\ f.story_id = g.story_id) => f = g
    /\ \A r \in SeqSlots :
          /\ (req[r].op = "createFavorite" /\ req[r].pc = "done"
                /\ PairBefore(r) # {})
             => /\ req[r].status \in {401, 409, 500}
                /\ favorites = pre[r].favorites
          /\ Finished(r, "createFavorite", 409) => PairBefore(r) # {}

\* C13 witness: a create for a pair that has a row has been answered 409
C13_Witness ==
    \E r \in SeqSlots :
        /\ Finished(r, "createFavorite", 409)
        /\ PairBefore(r) # {}
        /\ favorites # {}

(* ---------------------------------------------------------------------- *)
(* Properties of the ownership checks                                      *)
(* ---------------------------------------------------------------------- *)
PlaylistOps == {"addStory", "removeStory", "renamePlaylist", "deletePlaylist"}

ProfileOps == {"updateProfile", "deleteProfile", "deleteProfileNoCleanup"}

\* the users owning what the request of slot r targets, as of its arrival
TargetOwners(r) ==
    LET pid == IF req[r].op \in PlaylistOps
               THEN {pl.profile_id :
                       pl \in {q \in pre[r].playlists :
                                 q.id = parseInt(req[r].args.playlist_id)}}
               ELSE IF req[r].op \in ProfileOps
               THEN {parseInt(req[r].args.id)}
               ELSE IF req[r].op = "removeFavorite"
               THEN {parseInt(req[r].args.profile_id)}
               ELSE {}
    IN  {p.user_id : p \in {q \in pre[r].profiles : q.id \in pid}}

NotOwner(r) ==
    /\ req[r].pc = "done"
    /\ req[r].user # NoUser
    /\ TargetOwners(r) # {}
    /\ req[r].user \notin TargetOwners(r)

\* C14: every request of an authenticated caller who does not own the
\* targeted profile, or the profile of the targeted playlist, is answered 403
\* (500 when a data-store call threw) and leaves the data store and the
\* object store as they were.
C14_NonOwnerForbidden ==
    \A r \in SeqSlots :
        NotOwner(r) => /\ req[r].status \in {403, 500}
                       /\ Snapshot = pre[r]

CreateOps == {"createPlaylist", "createFavorite"}

\* the create request of slot r names a profile of another user
ForeignProfile(r) ==
    /\ req[r].op \in CreateOps /\ req[r].pc = "done"
    /\ req[r].user # NoUser
    /\ \E p \in pre[r].profiles : /\ p.id = parseInt(req[r].args.profile_id)
                                  /\ p.user_id # req[r].user

\* C15: a create playlist or create favorite request that names a profile of
\* another user is refused (403, or 400/500 for other failures) and adds no
\* playlists, playlistStories or favorites row.
C15_CreateByOwner ==
    \A r \in SeqSlots :
        ForeignProfile(r) => /\ req[r].status \in {400, 403, 404, 409, 500}
                             /\ playlists = pre[r].playlists
                             /\ playlistStories = pre[r].playlistStories
                             /\ favorites = pre[r].favorites

\* C16: a successful add without a position (absent, or not of type number)
\* on a dense playlist of n entries stores the new entry with order n,
\* reports it with order n and leaves every existing entry as it was.
C16_AppendWithoutPosition ==
    \A r \in SeqSlots :
        LET before == EntriesBefore(r)
            n == Cardinality(before)
        IN  ( /\ Finished(r, "addStory", 201)
              /\ ~req[r].args.hasPosition
              /\ DenseRows(before) )
            => /\ before \subseteq EntriesNow(r)
               /\ \E e \in EntriesNow(r) \ before :
                     /\ EntriesNow(r) = before \cup {e}
                     /\ e.story_id = req[r].args.story_id
                     /\ e.order = n
                     /\ req[r].body = e
                     /\ req[r].body.order = n

\* C16 witness: an append to a playlist of two entries
C16_Witness ==
    \E r \in SeqSlots :
        /\ Finished(r, "addStory", 201)
        /\ ~req[r].args.hasPosition
        /\ DenseRows(EntriesBefore(r))
        /\ Cardinality(EntriesBefore(r)) = 2
        /\ \E e \in EntriesNow(r) : e.order = 2

MissingMember(r) ==
    LET pid == parseInt(req[r].args.playlist_id)
        sid == parseInt(req[r].args.story_id)
        found == {pl \in pre[r].playlists : pl.id = pid}
    IN  /\ req[r].op = "removeStory" /\ req[r].pc = "done"
        /\ req[r].user # NoUser
        /\ ~isNaN(pid) /\ ~isNaN(sid)
        /\ \/ found = {}
           \/ /\ \A pl \in found :
                    \E p \in pre[r].profiles : /\ p.id = pl.profile_id
                                               /\ p.user_id = req[r].user
              /\ \A e \in EntriesBefore(r) : e.story_id # sid

\* C18: a remove for a story without an entry in the playlist, or for a
\* playlist that does not exist, is answered 404 (500 only when a data-store
\* call threw) and changes nothing; and a 404 never comes with a change.
C18_RemoveMissing ==
    \A r \in SeqSlots :
        /\ MissingMember(r) => /\ req[r].status \in {404, 500}
                               /\ req[r].status = 500 => faults > 0
                               /\ Snapshot = pre[r]
        /\ Finished(r, "removeStory", 404) => Snapshot = pre[r]

\* C18 witness: a story without an entry in a playlist of two entries
C18_Witness ==
    \E r \in SeqSlots :
        /\ MissingMember(r)
        /\ Finished(r, "removeStory", 404)
        /\ Cardinality(EntriesBefore(r)) = 2
        /\ req[r].body = Error("Story not found in playlist")

(* ---------------------------------------------------------------------- *)
(* Properties of concurrent requests                                       *)
(* ---------------------------------------------------------------------- *)
\* both slots hold a completed, successful add of different stories to the
\* same playlist, which was dense when the first of them arrived
BothAdded ==
    /\ \A r \in Slots : Finished(r, "addStory", 201)
    /\ req[1].args.playlist_id = req[2].args.playlist_id
    /\ req[1].args.story_id # req[2].args.story_id
    /\ \E r \in Slots : /\ DenseRows(EntriesBefore(r))
                        /\ EntriesBefore(r) \subseteq
                               {e \in pre[3 - r].playlistStories :
                                   e.playlist_id = parseInt(req[r].args.playlist_id)}

\* C19: once two concurrent adds to the same playlist have both completed,
\* the playlist's order values are exactly {0, ..., n-1}.
C19_ConcurrentDensity ==
    BothAdded => DenseRows(EntriesNow(1))

(* ---------------------------------------------------------------------- *)
(* Properties of authentication                                            *)
(* ---------------------------------------------------------------------- *)
\* the step takes in a request for which the identity provider gave no user
AnonymousArrival(r) ==
    req[r].pc = "idle" /\ req'[r].pc # "idle" /\ req'[r].user = NoUser

\* C20: a request for which the identity provider returns an error or no
\* user is answered 401 {error: 'Unauthorized'} in the step it arrives in,
\* with no data-store or object-store call made: the tables, the objects and
\* the count of failed calls are unchanged.
C20_Unauthenticated ==
    [][\A r \in SeqSlots :
          AnonymousArrival(r) =>
             /\ req'[r].pc = "done"
             /\ req'[r].status = 401
             /\ req'[r].body = Error("Unauthorized")
             /\ UNCHANGED <<db, r2Objects, faults>>]_vars

\* C20 witness: an anonymous delete-profile request answered 401 while the
\* tables hold a playlist with an entry and a favorite
C20_Witness ==
    \E r \in SeqSlots :
        /\ Finished(r, "deleteProfile", 401)
        /\ req[r].user = NoUser
        /\ req[r].body = Error("Unauthorized")
        /\ playlistStories # {} /\ favorites # {}
        /\ Snapshot = pre[r]

\* C27: in add story and rename playlist the ownership check comes before
\* the validation of the body: an authenticated caller who does not own the
\* targeted playlist is never answered 400.
C27_OwnershipBeforeValidation ==
    \A r \in SeqSlots :
        (NotOwner(r) /\ req[r].op \in {"addStory", "renamePlaylist"})
            => req[r].status # 400

(* ---------------------------------------------------------------------- *)
(* Properties of the profile handlers                                      *)
(* ---------------------------------------------------------------------- *)
\* every photo_url of the profile rows names an object of the object store
PhotosPresent(rows, objects) ==
    \A p \in rows : p.photo_url # NoPhoto => PhotoKey(p.photo_url) \in objects

\* C30: when an update profile request ends, with any status, the photo_url
\* of every profile row names an object that is in the object store,
\* provided that was so when the request arrived.
C30_PhotoKept ==
    \A r \in SeqSlots :
        ( /\ req[r].op = "updateProfile" /\ req[r].pc = "done"
          /\ PhotosPresent(pre[r].profiles, pre[r].r2Objects) )
        => PhotosPresent(profiles, r2Objects)

(* ---------------------------------------------------------------------- *)
(* Properties of delete playlist                                           *)
(* ---------------------------------------------------------------------- *)
\* C22: after a successful delete playlist the playlist row is gone, no
\* entry refers to its id, and the other playlists and their entries are as
\* they were.
C22_PlaylistCascade ==
    \A r \in SeqSlots :
        LET pid == parseInt(req[r].args.playlist_id)
        IN  Finished(r, "deletePlaylist", 200) =>
              /\ \A pl \in playlists : pl.id # pid
              /\ \A e \in playlistStories : e.playlist_id # pid
              /\ playlists = {pl \in pre[r].playlists : pl.id # pid}
              /\ playlistStories =
                     {e \in pre[r].playlistStories : e.playlist_id # pid}

\* C22 witness: a playlist with an entry is deleted while another playlist
\* with an entry stays
C22_Witness ==
    \E r \in SeqSlots :
        /\ Finished(r, "deletePlaylist", 200)
        /\ EntriesBefore(r) # {}
        /\ EntriesNow(r) = {}
        /\ playlistStories # {}

\* both slots hold a completed, successful remove of different stories from
\* the same playlist, which was dense when the first of them arrived
BothRemoved ==
    /\ \A r \in Slots : Finished(r, "removeStory", 200)
    /\ req[1].args.playlist_id = req[2].args.playlist_id
    /\ req[1].args.story_id # req[2].args.story_id
    /\ \E r \in Slots : /\ DenseRows(EntriesBefore(r))
                        /\ {e.id : e \in pre[3 - r].playlistStories}
                               \subseteq Ids(EntriesBefore(r))

\* C23: once two concurrent removes of different entries of one playlist
\* have both completed, the remaining order values are exactly {0, ..., n-1}.
C23_ConcurrentRemoveDensity ==
    BothRemoved => DenseRows(EntriesNow(1))

\* both slots hold a completed add of the same story to the same playlist
SamePairAdded ==
    /\ \A r \in Slots : req[r].op = "addStory" /\ req[r].pc = "done"
    /\ req[1].args.playlist_id = req[2].args.playlist_id
    /\ req[1].args.story_id = req[2].args.story_id

\* C25: once two concurrent adds of the same story to the same playlist have
\* both completed, the playlist holds at most one entry for the story and at
\* most one of the requests was answered 201.
C25_NoDuplicateEntry ==
    SamePairAdded =>
        /\ Cardinality({e \in EntriesNow(1) :
                          e.story_id = req[1].args.story_id}) <= 1
        /\ ~(req[1].status = 201 /\ req[2].status = 201)

\* both slots hold a completed create favorite for the same pair
SamePairFavorite ==
    /\ \A r \in Slots : req[r].op = "createFavorite" /\ req[r].pc = "done"
    /\ req[1].user # NoUser /\ req[2].user # NoUser
    /\ req[1].args = req[2].args

\* C26: no (profile, story) pair ever has two favorites rows, and of two
\* concurrent create favorite requests for one pair that have both completed
\* at most one was answered 201 and the other 409 (500 only when a
\* data-store call threw).
C26_NoDuplicateFavorite ==
    /\ \A f, g \in favorites :
          (f.profile_id = g.profile_id /\ f.story_id = g.story_id) => f = g
    /\ SamePairFavorite =>
          /\ ~(req[1].status = 201 /\ req[2].status = 201)
          /\ \A r \in Slots :
                req[r].status = 201 =>
                   /\ req[3 - r].status \in {409, 500}
                   /\ req[3 - r].status = 500 => faults > 0

\* C26 witness: both requests passed the findFirst check before either
\* created the row; one was answered 201, the other 409 by the create
C26_Witness ==
    /\ SamePairFavorite
    /\ \E r \in Slots :
          /\ req[r].status = 201
          /\ req[3 - r].status = 409
          /\ req[3 - r].body = Error("Profile already exists")
    /\ Cardinality(favorites) = 1

(* ---------------------------------------------------------------------- *)
(* Properties of create playlist                                           *)
(* ---------------------------------------------------------------------- *)
\* the story ids of the request repeat an id or name a story with no row
BadStoryIds(ids) ==
    \/ \E i, j \in 1..Len(ids) : i # j /\ ids[i] = ids[j]
    \/ \E i \in 1..Len(ids) : ids[i] \notin Stories

\* C29: a successful create playlist with n story ids adds the playlist and
\* exactly n entries, the i-th listed story at order i - 1 (counting from
\* 1), each story once; a request whose story ids repeat an id or name an
\* unknown story adds no playlist and no entry; and no playlist ever holds
\* two entries of one story.
C29_CreateEstablishes ==
    /\ \A r \in SeqSlots :
          LET ids == req[r].args.story_ids
          IN  /\ Finished(r, "createPlaylist", 201) =>
                   LET created == EntriesOf(req[r].body.id)
                   IN  /\ playlists = pre[r].playlists \cup {req[r].body}
                       /\ req[r].body \notin pre[r].playlists
                       /\ playlistStories \ created = pre[r].playlistStories
                       /\ Cardinality(created) = Len(ids)
                       /\ \A i \in 1..Len(ids) :
                             \E e \in created : /\ e.story_id = ids[i]
                                                /\ e.order = i - 1
                       /\ DenseRows(created)
                       /\ ~BadStoryIds(ids)
              /\ ( /\ req[r].op = "createPlaylist" /\ req[r].pc = "done"
                   /\ req[r].user # NoUser
                   /\ BadStoryIds(ids) )
                 => /\ req[r].status \in {400, 404, 500}
                    /\ playlists = pre[r].playlists
                    /\ playlistStories = pre[r].playlistStories
    /\ \A e, f \in playlistStories :
          (e.playlist_id = f.playlist_id /\ e.story_id = f.story_id) => e = f

\* C29 witness: a playlist created with two stories
C29_Witness ==
    \E r \in SeqSlots :
        /\ Finished(r, "createPlaylist", 201)
        /\ Len(req[r].args.story_ids) = 2
        /\ Orders(EntriesOf(req[r].body.id)) = {0, 1}

(* ---------------------------------------------------------------------- *)
(* The playlist as a list                                                  *)
(* ---------------------------------------------------------------------- *)
\* findUnique({include: {playlistStories: {orderBy: {order: 'asc'}}}}): the
\* story ids of the rows in ascending order; rows of equal order come in an
\* order the store chooses, so the result is one of a set of sequences
orderByOrderAsc(rows) ==
    LET n == Cardinality(rows)
        sorted == {s \in [1..n -> rows] :
                      /\ \A i, j \in 1..n : i # j => s[i] # s[j]
                      /\ \A i, j \in 1..n : i < j => s[i].order <= s[j].order}
    IN  {[i \in 1..n |-> s[i].story_id] : s \in sorted}

\* the list s with x put at index k, counting from 0
Splice(s, k, x) ==
    [i \in 1..(Len(s) + 1) |->
        IF i <= k THEN s[i] ELSE IF i = k + 1 THEN x ELSE s[i - 1]]

\* the list s without x
Without(s, x) == SelectSeq(s, LAMBDA y : y # x)

\* the index an add request asks for: the position cut to 0..n, or n
EffectivePosition(r, n) ==
    IF ~req[r].args.hasPosition THEN n
    ELSE IF req[r].args.position < 0 THEN 0
    ELSE IF req[r].args.position > n THEN n
    ELSE req[r].args.position

\* C28: read in ascending order, a playlist is a list: a successful add at
\* effective position k turns the list s read before the request into s
\* with the story spliced in at index k, and a successful remove turns it
\* into s without the story, whatever adds and removes came before, one
\* request at a time.
C28_ListRefinement ==
    \A r \in SeqSlots :
        /\ Finished(r, "addStory", 201) =>
              \A s \in orderByOrderAsc(EntriesBefore(r)) :
              \A t \in orderByOrderAsc(EntriesNow(r)) :
                  t = Splice(s, EffectivePosition(r, Len(s)),
                             req[r].args.story_id)
        /\ Finished(r, "removeStory", 200) =>
              \A s \in orderByOrderAsc(EntriesBefore(r)) :
              \A t \in orderByOrderAsc(EntriesNow(r)) :
                  t = Without(s, parseInt(req[r].args.story_id))

(* ---------------------------------------------------------------------- *)
(* Delete profile beside the writes of other requests                      *)
(* ---------------------------------------------------------------------- *)
\* the rows that were there when request r began are all still there
RowsIntact(r) ==
    /\ pre[r].profiles \subseteq profiles
    /\ pre[r].playlists \subseteq playlists
    /\ Ids(pre[r].playlistStories) \subseteq Ids(playlistStories)
    /\ pre[r].favorites \subseteq favorites
    /\ pre[r].profileCategories \subseteq profileCategories

\* C24: with create playlist and add story requests for the same profile
\* committing at any point of a delete-profile request, between its first
\* read and its transaction included, the deletion either fails and every
\* row there was is still there, or succeeds and no playlist of the
\* profile and no entry of a playlist that is gone remains.
C24_DeleteUnderWrites ==
    \A r \in Slots :
        (req[r].op \in DeleteOps /\ req[r].pc = "done" /\ req[r].user # NoUser)
        => \/ req[r].status # 200 /\ RowsIntact(r)
           \/ /\ req[r].status = 200
              /\ \A p \in profiles : p.id # parseInt(req[r].args.id)
              /\ \A pl \in playlists : pl.profile_id # parseInt(req[r].args.id)
              /\ \A e \in playlistStories : e.playlist_id \in Ids(playlists)

\* C24 witness: a deletion that succeeded and took with it a playlist
\* created after the first read of the profile, and the entry of that
\* playlist (the id of an entry begins with its playlist's id)
C24_Witness ==
    \E r \in Slots :
        /\ req[r].op \in DeleteOps /\ req[r].pc = "done" /\ req[r].status = 200
        /\ \E id \in req[r].loc.tx.playlists \ req[r].loc.playlistIds :
              /\ id \notin Ids(pre[r].playlists)
              /\ \E e \in req[r].loc.tx.playlistStories : e[1] = id

(* ---------------------------------------------------------------------- *)
(* Profile names                                                           *)
(* ---------------------------------------------------------------------- *)
\* the name the request would store: the name given, trimmed
NameToStore(r) ==
    IF req[r].op = "createProfile" THEN trim(req[r].args.name)
    ELSE trim(req[r].args.form.name)

\* request r has passed authentication and validation and asks for a name
\* that another profile of the caller had, ignoring case, when it arrived
NameTaken(r) ==
    /\ req[r].pc = "done"
    /\ req[r].user # NoUser
    /\ req[r].status \notin {400, 403, 404}
    /\ \/ req[r].op = "createProfile"
       \/ req[r].op = "updateProfile" /\ req[r].args.form.hasName
    /\ \E p \in pre[r].profiles :
          /\ p.user_id = req[r].user
          /\ req[r].op = "updateProfile" => p.id # parseInt(req[r].args.id)
          /\ toLowerCase(p.name) = toLowerCase(NameToStore(r))

\* C21: no two profiles of one account have names that are equal ignoring
\* case, and a create or rename that asks for a name another profile of
\* the account has, ignoring case and after trimming, is answered 409 (500
\* when a call throws) and leaves the profiles as they were.
C21_ProfileNameUnique ==
    /\ \A p, q \in profiles :
          (p.user_id = q.user_id /\ toLowerCase(p.name) = toLowerCase(q.name))
          => p = q
    /\ \A r \in SeqSlots :
          NameTaken(r) => /\ req[r].status \in {409, 500}
                          /\ profiles = pre[r].profiles

====
